---- MODULE Spec2Model ----
(***************************************************************************)
(* Model of the catalog builder: the quota-aware API gateway (apiRequest   *)
(* with its SQLite call log used as cache and as cost ledger), the         *)
(* resumable uploads-playlist crawler and the seed resolver.               *)
(*                                                                         *)
(* Persistent state (the SQLite tables) survives a process crash; the      *)
(* in-flight gateway call `gw` and the running pipeline `proc` do not.     *)
(* JavaScript `undefined`/`null` of a token, a count or an id is modelled  *)
(* by 0 (all of them are falsy in the code's tests) and by "" for text.    *)
(***************************************************************************)
EXTENDS Integers, Sequences, FiniteSets, TLC

VARIABLES
    api_calls,       \* table api_calls, in rowid order
    spentEarlier,    \* summed quota_cost of today's non-cached rows of api_calls
                     \* written before the modelled window (requests not modelled)
    clock,           \* wall clock in seconds (datetime('now'))
    videos,          \* table videos: a set of rows
    progress,        \* table playlist_crawl_progress: playlist -> row
    seed_channels,   \* table seed_channels: seed name -> row
    channels,        \* table channels: a set of rows
    channel_overrides, \* table channel_overrides: seed name -> channel id, "" = no row
    gw,              \* the apiRequest call in flight (volatile)
    proc,            \* the pipeline run in progress (volatile)
    faults,          \* environment: failures the upstream and the network may still produce
    upstream,        \* history: the HTTP exchanges had with the upstream, their
                     \* number and the summed cost the gateway assigns to them
    pace             \* the pacing gate: the time in ms, lastRequestTime, and where
                     \* each caller is between rateLimit and the end of its call

vars == <<api_calls, spentEarlier, clock, videos, progress, seed_channels,
          channels, channel_overrides, gw, proc, faults, upstream, pace>>

(***************************************************************************)
(* Bounds of the model                                                     *)
(***************************************************************************)
MaxClock == 1        \* seconds the clock may advance
MaxRows == 3         \* rows api_calls may hold
EarlierSlack == 1    \* spentEarlier starts at 0 or this far below the budget
MaxFaults == 1       \* failed HTTP exchanges (error status or network fault)
MaxCandidates == 3   \* channels in the answer to a search
MaxDays == 1         \* midnights the clock may pass
MaxCallers == 2      \* gateway calls that can be in flight together
TimeStep == 50       \* ms by which the time advances
MaxTime == 1500      \* ms the pacing gate is watched
MaxIds == 101        \* ids in a list handed to getVideosByIds
MaxRank == 5         \* rank of a scored search result

(***************************************************************************)
(* Program constants                                                       *)
(***************************************************************************)
DAILY_QUOTA_LIMIT == 10000
QUOTA_BUFFER == 100
DefaultRetries == 3
MIN_REQUEST_INTERVAL_MS == 100
IdsPerRequest == 50
MinTimeout == 1000
MaxTimeout == 30000
Factor == 2

\* QUOTA_COSTS: the table is keyed by the API method names
QUOTA_COSTS ==
    [k \in {"search.list", "channels.list", "playlistItems.list", "videos.list"} |->
        IF k = "search.list" THEN 100 ELSE 1]

\* const quotaCost = QUOTA_COSTS[endpoint] ?? 1
quotaCost(endpoint) ==
    IF endpoint \in DOMAIN QUOTA_COSTS THEN QUOTA_COSTS[endpoint] ELSE 1

\* The unit cost the documentation gives for the operation behind an endpoint
DocumentedCost(endpoint) ==
    IF endpoint = "search" THEN 100 ELSE 1

(***************************************************************************)
(* JSON text: what JSON.stringify writes and JSON.parse reads back         *)
(***************************************************************************)
JSONstringify(value) == [json |-> value]
JSONparse(text) == text.json

\* obj.key of a loosely typed object: 0 stands for undefined
HasKey(obj, key) == key \in DOMAIN obj

(***************************************************************************)
(* hashParams: endpoint + the parameters sorted by key. The parameters are *)
(* a record (unordered), so the pair is the sorted signature.              *)
(***************************************************************************)
hashParams(endpoint, params) == <<endpoint, params>>

(***************************************************************************)
(* The typed operations' requests                                          *)
(***************************************************************************)
SearchRequest(query) ==
    [endpoint |-> "search",
     params |-> [part |-> "snippet", type |-> "channel", q |-> query, maxResults |-> "5"]]

ChannelByIdRequest(channelId) ==
    [endpoint |-> "channels",
     params |-> [part |-> "snippet,contentDetails,statistics,brandingSettings,status",
                 id |-> channelId]]

\* getChannelByHandle: a leading @ is removed
ChannelByHandleRequest(handle) ==
    [endpoint |-> "channels",
     params |-> [part |-> "snippet,contentDetails,statistics,brandingSettings,status",
                 forHandle |-> IF Len(handle) > 0 /\ SubSeq(handle, 1, 1) = "@"
                               THEN SubSeq(handle, 2, Len(handle)) ELSE handle]]

\* getVideosByIds: the ids of the batch in one id parameter (the joined text
\* is kept as the set of the ids it names)
VideosRequest(videoIds) ==
    [endpoint |-> "videos",
     params |-> [part |-> "snippet,contentDetails,statistics,status", id |-> videoIds]]

\* params.pageToken is set only for a truthy token
PlaylistItemsRequest(playlistId, pageToken) ==
    [endpoint |-> "playlistItems",
     params |-> IF pageToken # 0
                THEN [part |-> "contentDetails,snippet", playlistId |-> playlistId,
                      maxResults |-> "50", pageToken |-> pageToken]
                ELSE [part |-> "contentDetails,snippet", playlistId |-> playlistId,
                      maxResults |-> "50"]]

(***************************************************************************)
(* The upstream: listings and the response body of each request            *)
(***************************************************************************)
Playlists == {"PL1", "PL2"}

\* The pages of each uploads playlist; item 0 is an entry without a videoId
Listing ==
    [pl \in Playlists |->
        IF pl = "PL1" THEN << <<11>>, <<0, 12>> >>
                      ELSE << <<21>> >>]

ListingTotal(pl) == IF pl = "PL1" THEN 3 ELSE 1

\* pageInfo.totalResults as page k reports it: the playlist has grown by one
\* entry with every page asked for
PageTotal(pl, k) == ListingTotal(pl) + (k - 1)

\* Page k+1 is requested with token k+1; page 1 with no token
PageOf(pageToken) == IF pageToken = 0 THEN 1 ELSE pageToken

PlaylistPage(pl, pageToken) ==
    LET k == PageOf(pageToken)
        items == [i \in 1..Len(Listing[pl][k]) |-> [videoId |-> Listing[pl][k][i]]]
    IN  IF k < Len(Listing[pl])
        THEN [items |-> items, nextPageToken |-> k + 1,
              pageInfo |-> [totalResults |-> PageTotal(pl, k)]]
        ELSE [items |-> items, pageInfo |-> [totalResults |-> PageTotal(pl, k)]]

\* The channels the upstream knows, their titles, subscribers and uploads playlists
ChannelIds == {"UC1", "UC2", "UC3"}

UploadsOf(channelId) ==
    IF channelId = "UC1" THEN "PL1" ELSE IF channelId = "UC2" THEN "PL2" ELSE "PL3"
ChannelOf(playlistId) == IF playlistId = "PL1" THEN "UC1" ELSE "UC2"

ChannelItem(channelId) ==
    [id |-> channelId,
     title |-> IF channelId = "UC1" THEN "Sony Music South"
               ELSE IF channelId = "UC2" THEN "Think Music India"
               ELSE "Tips Tamil",
     description |-> IF channelId = "UC3" THEN "Tamil film songs" ELSE "",
     subscriberCount |-> IF channelId = "UC1" THEN 12000000 ELSE 0,
     uploads |-> UploadsOf(channelId)]

\* The handles the upstream knows and the channel each of them names
HandleOwner(handle) ==
    IF handle = "SonyMusicSouth" THEN <<"UC1">>
    ELSE IF handle \in {"ThinkIndiaRecords", "ThinkTunes"} THEN <<"UC2">>
    ELSE IF handle = "tipstamil" THEN <<"UC3">>
    ELSE <<>>

\* The ranked channels a search for q finds
SearchResults(q) ==
    IF q = "Sony Music South" THEN <<"UC1">>
    ELSE IF q = "Think Music India" THEN <<"UC2", "UC1">>
    ELSE <<>>

\* The videos the upstream still has: 11 is public, 12 has been made private,
\* 21 has been removed and is in no answer
VideoCatalogue == {11, 12}

VideoItem(videoId) ==
    [id |-> videoId,
     privacyStatus |-> IF videoId = 12 THEN "private" ELSE "public",
     uploadStatus |-> "processed"]

\* The body of a 200 response
UpstreamData(endpoint, params) ==
    CASE endpoint = "playlistItems" ->
            PlaylistPage(params.playlistId,
                         IF HasKey(params, "pageToken") THEN params.pageToken ELSE 0)
      [] endpoint = "search" ->
            [items |-> [i \in 1..Len(SearchResults(params.q)) |->
                          [channelId |-> SearchResults(params.q)[i],
                           title |-> ChannelItem(SearchResults(params.q)[i]).title,
                           description |->
                               ChannelItem(SearchResults(params.q)[i]).description]]]
      [] endpoint = "videos" ->
            [items |-> {VideoItem(v) : v \in params.id \cap VideoCatalogue}]
      [] OTHER ->
            LET found == IF HasKey(params, "forHandle") THEN HandleOwner(params.forHandle)
                         ELSE IF params.id \in ChannelIds THEN <<params.id>>
                         ELSE <<>>
            IN  [items |-> [i \in 1..Len(found) |-> ChannelItem(found[i])]]

\* Outcomes of one HTTP exchange: a status, or 0 for a network fault (fetch rejects)
HttpOutcomes == {200, 500, 429, 403, 404, 0}

(***************************************************************************)
(* db: api_calls                                                           *)
(***************************************************************************)
Date(t) == t \div 86400

\* logApiCall: INSERT INTO api_calls, called_at DEFAULT datetime('now')
logApiCall(call) ==
    Append(api_calls,
           [endpoint |-> call.endpoint, params_hash |-> call.params_hash,
            request_params |-> call.request_params,
            response_status |-> call.response_status,
            quota_cost |-> call.quota_cost, cached |-> call.cached,
            called_at |-> clock])

\* A lookup that reads the wrong column (cached = 1 for response_status = 200)
getApiCallByHash_CachedOnly(hash) ==
    LET rows == {i \in 1..Len(api_calls) :
                    /\ api_calls[i].params_hash = hash
                    /\ api_calls[i].cached = 1}
    IN  {i \in rows : \A j \in rows : api_calls[j].called_at <= api_calls[i].called_at}

\* A lookup without the status filter: a failed response is found as well
getApiCallByHash_AnyStatus(hash) ==
    LET rows == {i \in 1..Len(api_calls) : api_calls[i].params_hash = hash}
    IN  {i \in rows : \A j \in rows : api_calls[j].called_at <= api_calls[i].called_at}

\* getApiCallByHash: WHERE params_hash = ? AND response_status = 200
\* ORDER BY called_at DESC LIMIT 1. called_at has a resolution of one second and
\* the order among equal called_at is not defined: every row of the latest
\* second can be the one returned.
getApiCallByHash(hash) ==
    LET rows == {i \in 1..Len(api_calls) :
                    /\ api_calls[i].params_hash = hash
                    /\ api_calls[i].response_status = 200}
    IN  {i \in rows : \A j \in rows : api_calls[j].called_at <= api_calls[i].called_at}

RECURSIVE SumCost(_, _)
SumCost(rows, n) ==
    IF n = 0 THEN 0
    ELSE SumCost(rows, n - 1)
         + (IF rows[n].cached = 0 /\ Date(rows[n].called_at) = Date(clock)
            THEN rows[n].quota_cost ELSE 0)

\* getQuotaUsedToday: SUM(quota_cost) WHERE cached = 0 AND date(called_at) = date('now')
getQuotaUsedToday == spentEarlier + SumCost(api_calls, Len(api_calls))

\* A check against the whole daily limit, the buffer forgotten
checkQuota_NoBuffer(cost) == (getQuotaUsedToday + cost) <= DAILY_QUOTA_LIMIT

\* checkQuota
checkQuota(cost) == (getQuotaUsedToday + cost) <= (DAILY_QUOTA_LIMIT - QUOTA_BUFFER)

(***************************************************************************)
(* apiRequest                                                              *)
(***************************************************************************)
GwIdle ==
    [pc |-> "idle", endpoint |-> "", params |-> [none |-> 0], skipCache |-> FALSE,
     attempt |-> 0, status |-> 0, hit |-> FALSE, ok |-> FALSE, data |-> [none |-> 0], error |-> ""]

GwDone(call, hit, ok, data, error) ==
    [call EXCEPT !.pc = "done", !.hit = hit, !.ok = ok, !.data = data, !.error = error]

\* A head of apiRequest that checks the quota before it looks in the cache
apiRequestBegin_QuotaFirst(endpoint, params, skipCache) ==
    LET paramsHash == hashParams(endpoint, params)
        call == [GwIdle EXCEPT !.endpoint = endpoint, !.params = params,
                                !.skipCache = skipCache]
        cachedRows == IF skipCache THEN {} ELSE getApiCallByHash(paramsHash)
    IN  /\ gw.pc = "idle"
        /\ IF ~checkQuota(quotaCost(endpoint))
           THEN /\ gw' = GwDone(call, FALSE, FALSE, [none |-> 0],
                                "Daily quota limit reached")
                /\ UNCHANGED api_calls
           ELSE IF cachedRows # {}
           THEN \E i \in cachedRows :
                  /\ Len(api_calls) < MaxRows
                  /\ api_calls' = logApiCall(
                        [endpoint |-> endpoint, params_hash |-> paramsHash,
                         request_params |-> JSONstringify(params),
                         response_status |-> 200, quota_cost |-> 0, cached |-> 1])
                  /\ gw' = GwDone(call, TRUE, TRUE,
                                  JSONparse(api_calls[i].request_params), "")
           ELSE /\ gw' = [call EXCEPT !.pc = "fetch", !.attempt = 1]
                /\ UNCHANGED api_calls

\* The synchronous head of apiRequest: cache lookup, quota check, then the
\* first attempt is due.
apiRequestBegin(endpoint, params, skipCache) ==
    LET paramsHash == hashParams(endpoint, params)
        call == [GwIdle EXCEPT !.endpoint = endpoint, !.params = params,
                                !.skipCache = skipCache]
        \* if (cached && cached.request_params): every row logged holds a text
        cachedRows == IF skipCache THEN {} ELSE getApiCallByHash(paramsHash)
    IN  /\ gw.pc = "idle"
        /\ IF cachedRows # {}
           THEN \E i \in cachedRows :
                  /\ Len(api_calls) < MaxRows
                  /\ api_calls' = logApiCall(
                        [endpoint |-> endpoint, params_hash |-> paramsHash,
                         request_params |-> JSONstringify(params),
                         response_status |-> 200, quota_cost |-> 0, cached |-> 1])
                  /\ gw' = GwDone(call, TRUE, TRUE,
                                  JSONparse(api_calls[i].request_params), "")
           ELSE IF ~checkQuota(quotaCost(endpoint))
           THEN /\ gw' = GwDone(call, FALSE, FALSE, [none |-> 0],
                                "Daily quota limit reached")
                /\ UNCHANGED api_calls
           ELSE /\ gw' = [call EXCEPT !.pc = "fetch", !.attempt = 1]
                /\ UNCHANGED api_calls

\* await fetch(url): one HTTP exchange with the upstream
Fetch ==
    /\ gw.pc = "fetch"
    /\ \E outcome \in HttpOutcomes :
          /\ gw' = [gw EXCEPT !.pc = "respond", !.status = outcome]
          /\ outcome # 0 => upstream.calls < MaxRows
          /\ outcome # 200 => faults > 0
          /\ faults' = IF outcome # 200 THEN faults - 1 ELSE faults
          /\ upstream' =
                IF outcome = 0 THEN upstream
                ELSE [calls |-> upstream.calls + 1,
                      cost |-> upstream.cost + quotaCost(gw.endpoint)]
    /\ UNCHANGED <<api_calls, spentEarlier, clock, videos, progress, seed_channels,
                   channels, channel_overrides, proc, pace>>

\* pRetry without a limit
RetriesLeft_Unlimited(attempt) == 1

\* pRetry: the retries left after the attempt of this number
RetriesLeft(attempt) == (DefaultRetries + 1) - attempt

\* Messages that take every failed status for a server error
ErrorMessage_AllTransient(status) ==
    IF status = 0 THEN "fetch failed"
    ELSE IF status = 403 \/ status = 429 THEN "Rate limited"
    ELSE "Server error"

\* The message of the error fetchWithRetry throws for a status (0: fetch rejected)
ErrorMessage(status) ==
    IF status = 0 THEN "fetch failed"
    ELSE IF status = 403 \/ status = 429 THEN "Rate limited"
    ELSE IF status >= 500 THEN "Server error"
    ELSE "API error"

\* What follows the exchange: fetchWithRetry logs a failed response and throws,
\* pRetry runs the next attempt or gives up, a 200 is logged and returned.
Respond ==
    /\ gw.pc = "respond"
    /\ LET paramsHash == hashParams(gw.endpoint, gw.params)
           cost == quotaCost(gw.endpoint)
           failed == [endpoint |-> gw.endpoint, params_hash |-> paramsHash,
                      request_params |-> JSONstringify(gw.params),
                      response_status |-> gw.status, quota_cost |-> cost, cached |-> 0]
           message == ErrorMessage(gw.status)
           \* an AbortError ends the retries; a rejected fetch is retried or not,
           \* as the installed p-retry classifies its TypeError
           mayRetry == message # "API error"
           mayAbort == gw.status = 0 \/ message = "API error"
       IN  IF gw.status = 200
           THEN /\ Len(api_calls) < MaxRows
                /\ api_calls' = logApiCall(
                      [endpoint |-> gw.endpoint, params_hash |-> paramsHash,
                       request_params |-> JSONstringify(UpstreamData(gw.endpoint, gw.params)),
                       response_status |-> 200, quota_cost |-> cost, cached |-> 0])
                /\ gw' = GwDone(gw, FALSE, TRUE, UpstreamData(gw.endpoint, gw.params), "")
           ELSE /\ IF gw.status = 0 THEN UNCHANGED api_calls
                   ELSE api_calls' = logApiCall(failed)
                /\ \/ /\ mayRetry
                      /\ RetriesLeft(gw.attempt) > 0
                      /\ gw' = [gw EXCEPT !.pc = "fetch", !.attempt = @ + 1, !.status = 0]
                   \/ /\ mayAbort \/ RetriesLeft(gw.attempt) <= 0
                      /\ gw' = GwDone(gw, FALSE, FALSE, [none |-> 0], message)
    /\ UNCHANGED <<spentEarlier, clock, videos, progress, seed_channels,
                   channels, channel_overrides, proc, faults, upstream, pace>>

(***************************************************************************)
(* The pacing gate of apiRequest: rateLimit, then the attempts of pRetry   *)
(***************************************************************************)
Callers == 1..MaxCallers

\* The process has just started: lastRequestTime = 0, Date.now() long after it
PaceStart ==
    [now |-> 2 * MIN_REQUEST_INTERVAL_MS, lastRequestTime |-> 0, lastStart |-> -1,
     call |-> [c \in Callers |-> [pc |-> "idle", wake |-> 0, attempt |-> 0]]]

PaceVars == <<api_calls, spentEarlier, clock, videos, progress, seed_channels,
              channels, channel_overrides, gw, proc, upstream>>

\* lastRequestTime = Date.now(), the URL is built and pRetry runs the first
\* attempt: the request of caller c leaves now
FirstAttempt(c) ==
    [pace EXCEPT !.lastRequestTime = pace.now, !.lastStart = pace.now,
                 !.call[c] = [pc |-> "fetch", wake |-> 0, attempt |-> 1]]

\* rateLimit is entered: elapsed is computed from lastRequestTime as it is now
\* and the caller sleeps for the rest of the interval, or goes on at once
RateLimit(c) ==
    /\ pace.call[c].pc = "idle"
    /\ LET elapsed == pace.now - pace.lastRequestTime
       IN  pace' = IF elapsed < MIN_REQUEST_INTERVAL_MS
                   THEN [pace EXCEPT !.call[c] =
                           [pc |-> "sleep",
                            wake |-> pace.now + (MIN_REQUEST_INTERVAL_MS - elapsed),
                            attempt |-> 0]]
                   ELSE FirstAttempt(c)
    /\ UNCHANGED faults
    /\ UNCHANGED PaceVars

\* The sleep of rateLimit is over
SleepDone(c) ==
    /\ pace.call[c].pc = "sleep"
    /\ pace.now >= pace.call[c].wake
    /\ pace' = FirstAttempt(c)
    /\ UNCHANGED faults
    /\ UNCHANGED PaceVars

\* The delay pRetry waits before the attempt that follows attempt n
Backoff(n) ==
    LET t == MinTimeout * (Factor ^ (n - 1))
    IN  IF t < MaxTimeout THEN t ELSE MaxTimeout

\* The attempt in flight settles: the call returns or throws for good, or a
\* transient failure makes pRetry wait for the next attempt
AttemptSettles(c) ==
    /\ pace.call[c].pc = "fetch"
    /\ \/ /\ pace' = [pace EXCEPT !.call[c] = [pc |-> "idle", wake |-> 0, attempt |-> 0]]
          /\ UNCHANGED faults
       \/ /\ faults > 0
          /\ faults' = faults - 1
          /\ pace' = [pace EXCEPT !.call[c] =
                        IF pace.call[c].attempt <= DefaultRetries
                        THEN [pc |-> "backoff",
                              wake |-> pace.now + Backoff(pace.call[c].attempt),
                              attempt |-> pace.call[c].attempt]
                        ELSE [pc |-> "idle", wake |-> 0, attempt |-> 0]]
    /\ UNCHANGED PaceVars

\* pRetry runs fetchWithRetry again: the request leaves, rateLimit is not
\* called and lastRequestTime is not written
RetryAttempt(c) ==
    /\ pace.call[c].pc = "backoff"
    /\ pace.now >= pace.call[c].wake
    /\ pace' = [pace EXCEPT !.lastStart = pace.now,
                            !.call[c] = [pc |-> "fetch", wake |-> 0,
                                         attempt |-> pace.call[c].attempt + 1]]
    /\ UNCHANGED faults
    /\ UNCHANGED PaceVars

\* Date.now() advances
TimePasses ==
    /\ pace.now + TimeStep <= MaxTime
    /\ pace' = [pace EXCEPT !.now = @ + TimeStep]
    /\ UNCHANGED faults
    /\ UNCHANGED PaceVars

(***************************************************************************)
(* Environment: time passes, the process dies                              *)
(***************************************************************************)
Tick ==
    /\ clock < MaxClock
    /\ clock' = clock + 1
    /\ UNCHANGED <<api_calls, spentEarlier, videos, progress, seed_channels,
                   channels, channel_overrides, gw, proc, faults, upstream, pace>>

\* Midnight passes: date('now') changes and nothing has been spent today
NewDay ==
    /\ Date(clock) < MaxDays
    /\ clock' = (Date(clock) + 1) * 86400
    /\ spentEarlier' = 0
    /\ UNCHANGED <<api_calls, videos, progress, seed_channels,
                   channels, channel_overrides, gw, proc, faults, upstream, pace>>

ProcIdle == [kind |-> "idle"]

\* The process is killed: everything in memory is gone, the tables stay
Crash ==
    /\ gw.pc # "idle" \/ proc.kind # "idle"
    /\ gw' = GwIdle
    /\ proc' = ProcIdle
    /\ UNCHANGED <<api_calls, spentEarlier, clock, videos, progress, seed_channels,
                   channels, channel_overrides, faults, upstream, pace>>

(***************************************************************************)
(* db: seed_channels, videos, playlist_crawl_progress                      *)
(***************************************************************************)
(***************************************************************************)
(* The numbers of calculateMatchScore. The code adds and subtracts IEEE    *)
(* doubles; every score is within a few units in the last place of a       *)
(* multiple of 0.05. A double is kept exactly as [h, e]: its value is      *)
(* h / 100 + e / (100 * 2^59), h a multiple of 5. ErrTable is the distance *)
(* of the double nearest to h / 100 from h / 100, UlpTable the spacing of  *)
(* the doubles in the binade of h / 100 and OddTable the parity of the     *)
(* mantissa of that double, for h = 0, 5, ... 100, all in 1 / (100 * 2^59).*)
(***************************************************************************)
ErrTable == <<0, 160, 320, -320, 640, 0, -640, -1280, 1280, 640, 0,
              2560, -1280, 1280, -2560, 0, 2560, -1280, 1280, -2560, 0>>
UlpTable == <<0, 400, 800, 1600, 1600, 3200, 3200, 3200, 3200, 3200, 6400,
              6400, 6400, 6400, 6400, 6400, 6400, 6400, 6400, 6400, 12800>>
OddTable == <<0, 0, 0, 1, 0, 0, 1, 0, 0, 1, 0, 0, 1, 1, 0, 0, 0, 1, 1, 0, 0>>

\* The double a decimal literal of the source denotes: 0.4 is Double(40)
Double(h) == [h |-> h, e |-> ErrTable[h \div 5 + 1]]

\* Round to nearest, ties to even, of the real h / 100 + x / (100 * 2^59),
\* h >= 0. Below 0.25, 0.5 and 1 the doubles are spaced half as far as above.
RoundUp(h, x) ==
    IF h = 0 THEN [h |-> 0, e |-> x]
    ELSE LET err == ErrTable[h \div 5 + 1]
             d == x - err
             below == h \in {25, 50, 100} /\ d < 0
             ulp == IF below THEN UlpTable[h \div 5 + 1] \div 2
                    ELSE UlpTable[h \div 5 + 1]
             odd == IF below THEN 0 ELSE OddTable[h \div 5 + 1]
             j0 == d \div ulp
             rem == d - j0 * ulp
             j == IF 2 * rem < ulp THEN j0
                  ELSE IF 2 * rem > ulp THEN j0 + 1
                  ELSE IF (j0 + odd) % 2 = 0 THEN j0 ELSE j0 + 1
         IN  [h |-> h, e |-> err + j * ulp]

Round(h, x) ==
    IF h < 0 THEN LET r == RoundUp(-h, -x) IN [h |-> -r.h, e |-> -r.e]
    ELSE RoundUp(h, x)

\* a + b, a - b, a * m for an integer m, a < b of doubles
Plus(a, b) == Round(a.h + b.h, a.e + b.e)
Minus(a, b) == Round(a.h - b.h, a.e - b.e)
Times(a, m) == Round(a.h * m, a.e * m)
Less(a, b) == a.h < b.h \/ (a.h = b.h /\ a.e < b.e)

\* Math.max and Math.min
MathMax(a, b) == IF Less(a, b) THEN b ELSE a
MathMin(a, b) == IF Less(b, a) THEN b ELSE a

\* SEED_CHANNELS, in the order of the array (the order of the row ids)
SEED_CHANNELS == <<"Sony Music South", "Think Music India">>

SeedNames == {SEED_CHANNELS[i] : i \in 1..Len(SEED_CHANNELS)}

\* The row INSERT OR IGNORE INTO seed_channels (seed_name, resolution_status) writes
PendingSeed ==
    [exists |-> TRUE, resolution_status |-> "pending", resolved_channel_id |-> "",
     resolved_title |-> "", uploads_playlist_id |-> "", resolution_method |-> "",
     confidence_score |-> Double(0), chosen_rank |-> 0, resolution_error |-> ""]

\* A seed resolved to a channel, its uploads playlist fetched
CrawlableSeed(channelId) ==
    [PendingSeed EXCEPT !.resolution_status = "resolved",
                        !.resolved_channel_id = channelId,
                        !.resolved_title = channelId,
                        !.uploads_playlist_id = UploadsOf(channelId),
                        !.resolution_method = "search",
                        !.confidence_score = Double(50), !.chosen_rank = 1]

NoProgress ==
    [exists |-> FALSE, channel_id |-> "", total_results |-> 0, fetched_count |-> 0,
     next_page_token |-> 0, is_complete |-> 0]

\* A lookup that never finds the progress row
getPlaylistProgress_NoRow(playlistId) == NoProgress

\* getPlaylistProgress
getPlaylistProgress(playlistId) == progress[playlistId]

\* upsertPlaylistProgress: INSERT ... ON CONFLICT(playlist_id) DO UPDATE SET
\* total_results, fetched_count, next_page_token, is_complete (channel_id stays)
upsertPlaylistProgress(row) ==
    [progress EXCEPT ![row.playlist_id] =
        [exists |-> TRUE,
         channel_id |-> IF @.exists THEN @.channel_id ELSE row.channel_id,
         total_results |-> row.total_results,
         fetched_count |-> row.fetched_count,
         next_page_token |-> row.next_page_token,
         is_complete |-> row.is_complete]]

\* getIncompletePlaylistChannels: resolved seeds with an uploads playlist whose
\* progress row is missing or not complete, ORDER BY s.id
RECURSIVE IncompleteFrom(_)
IncompleteFrom(i) ==
    IF i > Len(SEED_CHANNELS) THEN <<>>
    ELSE LET name == SEED_CHANNELS[i]
             s == seed_channels[name]
         IN  IF /\ s.exists
                /\ s.resolution_status = "resolved"
                /\ s.uploads_playlist_id # ""
                /\ (~progress[s.uploads_playlist_id].exists
                    \/ progress[s.uploads_playlist_id].is_complete = 0)
             THEN <<[seed_name |-> name,
                     resolved_channel_id |-> s.resolved_channel_id,
                     uploads_playlist_id |-> s.uploads_playlist_id]>>
                  \o IncompleteFrom(i + 1)
             ELSE IncompleteFrom(i + 1)

getIncompletePlaylistChannels == IncompleteFrom(1)

\* INSERT OR REPLACE: the row of the same youtube_id is replaced
InsertOrReplaceVideo(table, v) ==
    {r \in table : r.youtube_id # v.videoId}
    \cup {[youtube_id |-> v.videoId, channel_id |-> v.channelId,
           discovered_from |-> v.discoveredFrom, seed_source |-> v.seedSource,
           metadata_status |-> "pending", video_status |-> "active"]}

\* INSERT OR IGNORE INTO videos (...) VALUES (?, ?, ?, ?, ?, 'pending', ...):
\* youtube_id is the primary key, a row with the same key is left as it is
InsertOrIgnoreVideo(table, v) ==
    IF \E r \in table : r.youtube_id = v.videoId
    THEN table
    ELSE table \cup {[youtube_id |-> v.videoId, channel_id |-> v.channelId,
                      discovered_from |-> v.discoveredFrom, seed_source |-> v.seedSource,
                      metadata_status |-> "pending", video_status |-> "active"]}

\* insertManyDiscoveredVideos: one transaction over the list; the table after
\* the first n items
RECURSIVE insertManyDiscoveredVideos(_, _, _)
insertManyDiscoveredVideos(table, items, n) ==
    IF n = 0 THEN table
    ELSE InsertOrIgnoreVideo(insertManyDiscoveredVideos(table, items, n - 1), items[n])

\* updateVideoMetadata, as far as the row's status goes
updateVideoMetadata(youtubeId) ==
    {IF r.youtube_id = youtubeId
     THEN [r EXCEPT !.metadata_status = "fetched", !.video_status = "active"]
     ELSE r : r \in videos}

(***************************************************************************)
(* getPlaylistItems: the typed result of a page                            *)
(***************************************************************************)
\* data.items || [], data.nextPageToken, data.pageInfo?.totalResults
PlaylistItemsResponse(data) ==
    [items |-> IF HasKey(data, "items") THEN data.items ELSE <<>>,
     nextPageToken |-> IF HasKey(data, "nextPageToken") THEN data.nextPageToken ELSE 0,
     totalResults |-> IF HasKey(data, "pageInfo") THEN data.pageInfo.totalResults ELSE 0]

\* response.items.filter(item => item.videoId).map(...)
RECURSIVE DiscoveredVideos(_, _, _)
DiscoveredVideos(items, channelId, seedSource) ==
    IF items = <<>> THEN <<>>
    ELSE LET rest == DiscoveredVideos(Tail(items), channelId, seedSource)
         IN  IF HasKey(Head(items), "videoId") /\ Head(items).videoId # 0
             THEN <<[videoId |-> Head(items).videoId, channelId |-> channelId,
                     discoveredFrom |-> "uploads_playlist", seedSource |-> seedSource]>>
                  \o rest
             ELSE rest

(***************************************************************************)
(* Pipeline crawl-uploads: crawlUploads and crawlPlaylist                  *)
(***************************************************************************)
CrawlVars == <<spentEarlier, clock, seed_channels, channels, channel_overrides, faults, upstream, pace>>

\* crawlUploads up to the for loop
CrawlUploadsStart ==
    /\ proc.kind = "idle"
    /\ gw.pc = "idle"
    /\ LET list == getIncompletePlaylistChannels
       IN  proc' = IF Len(list) = 0 THEN ProcIdle
                   ELSE [kind |-> "crawl", pc |-> "channel", channels |-> list, idx |-> 1,
                         playlistId |-> "", channelId |-> "", seedSource |-> "",
                         nextPageToken |-> 0, totalResults |-> 0, fetchedCount |-> 0,
                         newVideosTotal |-> 0, items |-> <<>>,
                         totalProcessed |-> 0, totalVideos |-> 0, totalNewVideos |-> 0]
    /\ UNCHANGED <<api_calls, videos, progress, gw>>
    /\ UNCHANGED CrawlVars

\* The next channel of the loop: crawlPlaylist reads the progress of its root
CrawlNextChannel ==
    /\ proc.kind = "crawl"
    /\ proc.pc = "channel"
    /\ IF proc.idx > Len(proc.channels)
       THEN proc' = [proc EXCEPT !.pc = "summary"]
       ELSE LET channel == proc.channels[proc.idx]
                row == getPlaylistProgress(channel.uploads_playlist_id)
            IN  proc' = [proc EXCEPT
                    !.pc = "page",
                    !.playlistId = channel.uploads_playlist_id,
                    !.channelId = channel.resolved_channel_id,
                    !.seedSource = channel.seed_name,
                    !.nextPageToken = IF row.exists THEN row.next_page_token ELSE 0,
                    !.totalResults = IF row.exists THEN row.total_results ELSE 0,
                    !.fetchedCount = IF row.exists THEN row.fetched_count ELSE 0,
                    !.newVideosTotal = 0,
                    !.items = <<>>]
    /\ UNCHANGED <<api_calls, videos, progress, gw>>
    /\ UNCHANGED CrawlVars

\* Top of the do-while: the quota check, then getPlaylistItems is called.
\* 'Quota limit reached' is thrown to crawlUploads, which leaves its loop with
\* its totals as they are.
CrawlRequestPage ==
    /\ proc.kind = "crawl"
    /\ proc.pc = "page"
    /\ IF ~checkQuota(1)
       THEN /\ proc' = [proc EXCEPT !.pc = "summary"]
            /\ UNCHANGED <<api_calls, gw>>
       ELSE /\ LET r == PlaylistItemsRequest(proc.playlistId, proc.nextPageToken)
               IN  apiRequestBegin(r.endpoint, r.params, FALSE)
            /\ proc' = [proc EXCEPT !.pc = "await"]
    /\ UNCHANGED <<videos, progress>>
    /\ UNCHANGED CrawlVars

\* A catch that swallows the error and asks for the page again
CrawlPlaylistThrows_TriesAgain ==
    /\ proc' = [proc EXCEPT !.pc = "page"]
    /\ UNCHANGED videos

\* getPlaylistItems throws and so does crawlPlaylist: the catch of crawlUploads
\* reports the error and the loop goes on with the next channel (no message of
\* a failed exchange has 'Quota' in it)
CrawlPlaylistThrows ==
    /\ proc' = [proc EXCEPT !.pc = "channel", !.idx = @ + 1]
    /\ UNCHANGED videos

\* A total that follows the latest page
KnownTotal_Latest(totalResults, reported) ==
    IF reported # 0 THEN reported ELSE totalResults

\* if (response.totalResults && !totalResults) totalResults = response.totalResults
KnownTotal(totalResults, reported) ==
    IF reported # 0 /\ totalResults = 0 THEN reported ELSE totalResults

\* The page arrives: the total is taken if still unknown and the page's videos
\* are inserted. An error leaves crawlPlaylist: crawlUploads stops on a message
\* with 'Quota' in it and goes on with the next channel otherwise.
CrawlInsertPage ==
    /\ proc.kind = "crawl"
    /\ proc.pc = "await"
    /\ gw.pc = "done"
    /\ gw' = GwIdle
    /\ IF ~gw.ok
       THEN CrawlPlaylistThrows
       ELSE LET response == PlaylistItemsResponse(gw.data)
                found == DiscoveredVideos(response.items, proc.channelId, proc.seedSource)
                table == insertManyDiscoveredVideos(videos, found, Len(found))
            IN  /\ videos' = table
                /\ proc' = [proc EXCEPT
                      !.pc = "progress",
                      !.totalResults = KnownTotal(@, response.totalResults),
                      !.newVideosTotal = @ + (Cardinality(table) - Cardinality(videos)),
                      !.fetchedCount = @ + Len(response.items),
                      !.nextPageToken = response.nextPageToken,
                      !.items = response.items]
    /\ UNCHANGED <<api_calls, progress>>
    /\ UNCHANGED CrawlVars

\* upsertPlaylistProgress after the page, then the while test; after the last
\* page crawlPlaylist returns its counts and crawlUploads adds them to its totals
CrawlSaveProgress ==
    /\ proc.kind = "crawl"
    /\ proc.pc = "progress"
    /\ progress' = upsertPlaylistProgress(
          [playlist_id |-> proc.playlistId, channel_id |-> proc.channelId,
           total_results |-> proc.totalResults, fetched_count |-> proc.fetchedCount,
           next_page_token |-> proc.nextPageToken,
           is_complete |-> IF proc.nextPageToken # 0 THEN 0 ELSE 1])
    /\ proc' = IF proc.nextPageToken # 0
               THEN [proc EXCEPT !.pc = "page"]
               ELSE [proc EXCEPT !.pc = "channel", !.idx = @ + 1,
                                 !.totalVideos = @ + proc.fetchedCount,
                                 !.totalNewVideos = @ + proc.newVideosTotal,
                                 !.totalProcessed = @ + 1]
    /\ UNCHANGED <<api_calls, videos, gw>>
    /\ UNCHANGED CrawlVars

\* The summary is printed and crawlUploads returns
CrawlSummary ==
    /\ proc.kind = "crawl"
    /\ proc.pc = "summary"
    /\ proc' = ProcIdle
    /\ UNCHANGED <<api_calls, videos, progress, gw>>
    /\ UNCHANGED CrawlVars

\* The metadata stage, run between two crawls, stores the details of a
\* pending video: updateVideoMetadata
MetadataFetched ==
    /\ proc.kind = "idle"
    /\ \E r \in videos :
          /\ r.metadata_status = "pending"
          /\ videos' = updateVideoMetadata(r.youtube_id)
    /\ UNCHANGED <<api_calls, progress, gw, proc>>
    /\ UNCHANGED CrawlVars

(***************************************************************************)
(* Pipeline fetch-video-details: fetchVideoDetails and getVideosByIds      *)
(***************************************************************************)
BATCH_SIZE == 50

\* getPendingVideos(limit): the ids of the pending rows (the model's table
\* holds fewer rows than any limit used)
getPendingVideos(limit) ==
    {r.youtube_id : r \in {x \in videos : x.metadata_status = "pending"}}

getPendingVideoCount == Cardinality({r \in videos : r.metadata_status = "pending"})

\* An update that stores the error and leaves the row pending
updateVideoFailed_StaysPending(r, error, status) == r

\* updateVideoFailed on the row r: metadata_status = status, video_status =
\* CASE WHEN status = 'failed' THEN video_status ELSE status END
updateVideoFailed(r, error, status) ==
    [r EXCEPT !.metadata_status = status,
              !.video_status = IF status = "failed" THEN @ ELSE status]

\* parseVideoItem, as far as the status goes
parseVideoItem(item) ==
    [videoId |-> item.id,
     status |-> IF item.privacyStatus = "private" THEN "private"
                ELSE IF item.uploadStatus \in {"rejected", "deleted"} THEN "deleted"
                ELSE "active"]

\* getVideosByIds on the response: the parsed items, and a 'deleted' entry for
\* every id of the batch that the response does not hold
VideosByIdsResult(data, batch) ==
    LET items == IF HasKey(data, "items") THEN data.items ELSE {}
        results == {parseVideoItem(item) : item \in items}
        fetchedIds == {item.id : item \in items}
    IN  results \cup {[videoId |-> v, status |-> "deleted"] : v \in batch \ fetchedIds}

\* A slice that takes the rest of the list
Slice_ToEnd(videoIds, i) == SubSeq(videoIds, i + 1, Len(videoIds))

\* videoIds.slice(i, i + 50)
Slice(videoIds, i) ==
    SubSeq(videoIds, i + 1,
           IF i + IdsPerRequest < Len(videoIds) THEN i + IdsPerRequest ELSE Len(videoIds))

\* The ids of a list
IdsOf(list) == {list[k] : k \in 1..Len(list)}

\* The items of a response in the order of their ids
RECURSIVE ItemsInOrder(_)
ItemsInOrder(items) ==
    IF items = {} THEN <<>>
    ELSE LET first == CHOOSE x \in items : \A y \in items : x.id <= y.id
         IN  <<first>> \o ItemsInOrder(items \ {first})

\* for (const item of data.items || []) results.push(parseVideoItem(item))
ParsedItems(items) == [k \in 1..Len(items) |-> parseVideoItem(items[k])]

\* for (const videoId of batch) if (!fetchedIds.has(videoId)) results.push(...)
RECURSIVE Placeholders(_, _)
Placeholders(batch, fetchedIds) ==
    IF batch = <<>> THEN <<>>
    ELSE (IF Head(batch) \in fetchedIds THEN <<>>
          ELSE <<[videoId |-> Head(batch), status |-> "deleted"]>>)
         \o Placeholders(Tail(batch), fetchedIds)

ByIdsVars == <<spentEarlier, clock, videos, progress, seed_channels, channels,
               channel_overrides, faults, upstream, pace>>

\* getVideosByIds, a batch of the list is requested; after the last batch the
\* results are returned
GetVideosNextBatch ==
    /\ proc.kind = "byIds"
    /\ proc.pc = "batch"
    /\ IF proc.i >= Len(proc.videoIds)
       THEN /\ proc' = [proc EXCEPT !.pc = "returned"]
            /\ UNCHANGED <<api_calls, gw>>
       ELSE /\ LET r == VideosRequest(IdsOf(Slice(proc.videoIds, proc.i)))
               IN  apiRequestBegin(r.endpoint, r.params, FALSE)
            /\ proc' = [proc EXCEPT !.pc = "await", !.requests = @ + 1]
    /\ UNCHANGED ByIdsVars

\* The batch's response arrives: its items, then the ids it does not hold; an
\* error of apiRequest leaves getVideosByIds
GetVideosBatchReturn ==
    /\ proc.kind = "byIds"
    /\ proc.pc = "await"
    /\ gw.pc = "done"
    /\ gw' = GwIdle
    /\ IF ~gw.ok
       THEN proc' = [proc EXCEPT !.pc = "thrown"]
       ELSE LET items == ItemsInOrder(IF HasKey(gw.data, "items") THEN gw.data.items
                                      ELSE {})
                fetchedIds == proc.fetchedIds \cup {items[k].id : k \in 1..Len(items)}
            IN  proc' = [proc EXCEPT
                    !.pc = "batch",
                    !.i = @ + IdsPerRequest,
                    !.fetchedIds = fetchedIds,
                    !.results = @ \o ParsedItems(items)
                                  \o Placeholders(Slice(proc.videoIds, proc.i), fetchedIds)]
    /\ UNCHANGED api_calls
    /\ UNCHANGED ByIdsVars

\* The caller has the results or the error
GetVideosDone ==
    /\ proc.kind = "byIds"
    /\ proc.pc \in {"returned", "thrown"}
    /\ proc' = ProcIdle
    /\ UNCHANGED <<api_calls, gw>>
    /\ UNCHANGED ByIdsVars

\* The for loop over the batch: each row by the detail of its id
StoreDetails(details, batch) ==
    {IF r.youtube_id \notin batch THEN r
     ELSE IF ~\E d \in details : d.videoId = r.youtube_id
     THEN updateVideoFailed(r, "Video not found in API response", "deleted")
     ELSE LET detail == CHOOSE d \in details : d.videoId = r.youtube_id
          IN  IF detail.status \in {"deleted", "private", "blocked"}
              THEN updateVideoFailed(r, "Video " \o detail.status, detail.status)
              ELSE [r EXCEPT !.metadata_status = "fetched",
                             !.video_status = detail.status]
     : r \in videos}

MetadataVars == <<spentEarlier, clock, progress, seed_channels, channels,
                  channel_overrides, faults, upstream, pace>>

\* fetchVideoDetails up to its loop; limit = maxVideos ?? totalPending
FetchVideoDetailsStart ==
    /\ proc.kind = "idle"
    /\ gw.pc = "idle"
    /\ getPendingVideoCount > 0
    /\ \E limit \in {1, getPendingVideoCount} :
          proc' = [kind |-> "metadata", pc |-> "batch", limit |-> limit,
                   processed |-> 0, batch |-> {}]
    /\ UNCHANGED <<api_calls, videos, gw>>
    /\ UNCHANGED MetadataVars

\* Top of the while: the limit, the quota check, the pending rows, then
\* getVideosByIds is called
MetadataRequestBatch ==
    /\ proc.kind = "metadata"
    /\ proc.pc = "batch"
    /\ IF \/ proc.processed >= proc.limit
          \/ ~checkQuota(1)
          \/ getPendingVideos(BATCH_SIZE) = {}
       THEN /\ proc' = ProcIdle
            /\ UNCHANGED <<api_calls, gw>>
       ELSE /\ LET r == VideosRequest(getPendingVideos(BATCH_SIZE))
               IN  apiRequestBegin(r.endpoint, r.params, FALSE)
            /\ proc' = [proc EXCEPT !.pc = "await",
                                    !.batch = getPendingVideos(BATCH_SIZE)]
    /\ UNCHANGED videos
    /\ UNCHANGED MetadataVars

\* The details arrive and every row of the batch is updated; on an error the
\* catch marks every row of the batch failed
MetadataStoreBatch ==
    /\ proc.kind = "metadata"
    /\ proc.pc = "await"
    /\ gw.pc = "done"
    /\ gw' = GwIdle
    /\ videos' = IF gw.ok
                 THEN StoreDetails(VideosByIdsResult(gw.data, proc.batch), proc.batch)
                 ELSE {IF r.youtube_id \in proc.batch
                       THEN updateVideoFailed(r, gw.error, "failed") ELSE r : r \in videos}
    /\ proc' = [proc EXCEPT !.pc = "batch",
                            !.processed = @ + Cardinality(proc.batch)]
    /\ UNCHANGED api_calls
    /\ UNCHANGED MetadataVars

(***************************************************************************)
(* db: seed_channels, channels and channel_overrides as the resolver uses  *)
(* them                                                                    *)
(***************************************************************************)
\* No row of that seed_name
NoSeed == [PendingSeed EXCEPT !.exists = FALSE, !.resolution_status = ""]

\* An insert that replaces the row of a name that is already there
insertManySeedChannels_Replace(seeds) ==
    [n \in SeedNames |->
        IF \E i \in 1..Len(seeds) : seeds[i] = n THEN PendingSeed ELSE seed_channels[n]]

\* insertManySeedChannels: INSERT OR IGNORE, only a missing row is created
insertManySeedChannels(seeds) ==
    [n \in SeedNames |->
        IF ~seed_channels[n].exists /\ (\E i \in 1..Len(seeds) : seeds[i] = n)
        THEN PendingSeed ELSE seed_channels[n]]

\* getAllSeedChannels: SELECT * FROM seed_channels ORDER BY id
RECURSIVE getAllSeedChannels(_, _)
getAllSeedChannels(table, i) ==
    IF i > Len(SEED_CHANNELS) THEN <<>>
    ELSE (IF table[SEED_CHANNELS[i]].exists THEN <<SEED_CHANNELS[i]>> ELSE <<>>)
         \o getAllSeedChannels(table, i + 1)

\* getPendingSeedChannels: WHERE resolution_status = 'pending' ORDER BY id,
\* the names of the rows of `table` from the i-th seed on
RECURSIVE getPendingSeedChannels(_, _)
getPendingSeedChannels(table, i) ==
    IF i > Len(SEED_CHANNELS) THEN <<>>
    ELSE (IF /\ table[SEED_CHANNELS[i]].exists
             /\ table[SEED_CHANNELS[i]].resolution_status = "pending"
          THEN <<SEED_CHANNELS[i]>> ELSE <<>>)
         \o getPendingSeedChannels(table, i + 1)

\* updateSeedChannelResolved: UPDATE ... WHERE seed_name = ?
updateSeedChannelResolved(seedName, channelId, title, method, confidence, rank) ==
    [seed_channels EXCEPT ![seedName] =
        IF @.exists
        THEN [@ EXCEPT !.resolved_channel_id = channelId, !.resolved_title = title,
                       !.resolution_method = method, !.confidence_score = confidence,
                       !.chosen_rank = rank, !.resolution_status = "resolved"]
        ELSE @]

\* An update that stores the error and leaves the status
updateSeedChannelFailed_ErrorOnly(seedName, error) ==
    [seed_channels EXCEPT ![seedName] =
        IF @.exists THEN [@ EXCEPT !.resolution_error = error] ELSE @]

\* updateSeedChannelFailed
updateSeedChannelFailed(seedName, error) ==
    [seed_channels EXCEPT ![seedName] =
        IF @.exists
        THEN [@ EXCEPT !.resolution_status = "failed", !.resolution_error = error]
        ELSE @]

\* An upsert that writes no row
upsertChannel_NoWrite(channel) == channels

\* upsertChannel: INSERT ... ON CONFLICT(channel_id) DO UPDATE
upsertChannel(channel) ==
    {r \in channels : r.channel_id # channel.channelId}
    \cup {[channel_id |-> channel.channelId, title |-> channel.title,
           uploads_playlist_id |-> channel.uploadsPlaylistId,
           subscriber_count |-> channel.subscriberCount]}

\* A lookup that finds no override
getOverride_NoRow(seedName) == ""

\* getOverride: the channel id of the row, "" without a row
getOverride(seedName) == channel_overrides[seedName]

\* overrides.json as it can be found at the start of a run: missing, or naming
\* a channel for the second seed
OverridesFiles ==
    {[n \in SeedNames |-> ""],
     [n \in SeedNames |-> IF n = SEED_CHANNELS[2] THEN "UC2" ELSE ""]}

\* loadOverridesFromJson: INSERT OR REPLACE of every entry of the file
loadOverridesFromJson(file) ==
    [n \in SeedNames |-> IF file[n] # "" THEN file[n] ELSE channel_overrides[n]]

(***************************************************************************)
(* The typed results of the channel operations                             *)
(***************************************************************************)
parseChannelItem(item) ==
    [channelId |-> item.id, title |-> item.title, description |-> item.description,
     subscriberCount |-> item.subscriberCount, uploadsPlaylistId |-> item.uploads]

\* getChannelById / getChannelByHandle: data.items?.[0], parsed; <<>> is null
FirstChannel(data) ==
    IF HasKey(data, "items") /\ Len(data.items) > 0
    THEN <<parseChannelItem(data.items[1])>> ELSE <<>>

\* searchChannels: (data.items || []).map(...)
SearchChannelsResult(data) ==
    IF HasKey(data, "items")
    THEN [i \in 1..Len(data.items) |->
            [channelId |-> data.items[i].channelId, title |-> data.items[i].title,
             description |-> data.items[i].description]]
    ELSE <<>>

(***************************************************************************)
(* The text operations of calculateMatchScore and looksLikeHandle          *)
(***************************************************************************)
UpperCase == "ABCDEFGHIJKLMNOPQRSTUVWXYZ"
LowerCase == "abcdefghijklmnopqrstuvwxyz"

CharAt(s, i) == SubSeq(s, i, i)

\* The lower-case letter of each upper-case letter
LowerOf ==
    [c \in {CharAt(UpperCase, i) : i \in 1..Len(UpperCase)} |->
        CharAt(LowerCase, CHOOSE i \in 1..Len(UpperCase) : CharAt(UpperCase, i) = c)]

LowerChar(c) == IF c \in DOMAIN LowerOf THEN LowerOf[c] ELSE c

\* String.prototype.toLowerCase
RECURSIVE toLowerCase(_)
toLowerCase(s) ==
    IF Len(s) = 0 THEN ""
    ELSE toLowerCase(SubSeq(s, 1, Len(s) - 1)) \o LowerChar(CharAt(s, Len(s)))

\* String.prototype.includes: the empty text is in every text
includes(s, t) ==
    \E i \in 0..(Len(s) - Len(t)) : SubSeq(s, i + 1, i + Len(t)) = t

\* split(/\s+/): the words between the blanks; w is the word being read. A
\* run of blanks gives empty words here and none in the code: no caller
\* keeps a word shorter than 3.
RECURSIVE split(_, _)
split(s, w) ==
    IF Len(s) = 0 THEN <<w>>
    ELSE IF CharAt(s, 1) = " " THEN <<w>> \o split(SubSeq(s, 2, Len(s)), "")
    ELSE split(SubSeq(s, 2, Len(s)), w \o CharAt(s, 1))

LongerThanTwo(w) == Len(w) > 2

\* split(/\s+/).filter(w => w.length > 2)
Words(name) == SelectSeq(split(name, ""), LongerThanTwo)

\* seed.replace(/\s/g, '')
RECURSIVE StripSpaces(_)
StripSpaces(seed) ==
    IF Len(seed) = 0 THEN ""
    ELSE IF CharAt(seed, 1) = " " THEN StripSpaces(SubSeq(seed, 2, Len(seed)))
    ELSE CharAt(seed, 1) \o StripSpaces(SubSeq(seed, 2, Len(seed)))

\* [a-zA-Z0-9_-]
HandleChars ==
    {CharAt(UpperCase \o LowerCase \o "0123456789_-", k) :
        k \in 1..(2 * Len(UpperCase) + 12)}

\* A test that takes every name for a handle
looksLikeHandle_Always(name) == TRUE

\* name.startsWith('@') || /^[a-zA-Z0-9_-]+$/.test(name)
looksLikeHandle(name) ==
    \/ (Len(name) > 0 /\ CharAt(name, 1) = "@")
    \/ /\ Len(name) > 0
       /\ \A i \in 1..Len(name) : CharAt(name, i) \in HandleChars

OFFICIAL_KEYWORDS ==
    <<"official", "music", "records", "productions", "entertainment", "films",
      "audio", "label">>

TAMIL_KEYWORDS == <<"tamil", "kollywood", "chennai", "south", "இசை", "பாடல்">>

Min(a, b) == IF a < b THEN a ELSE b

(***************************************************************************)
(* calculateMatchScore: the score, a double. subscriberCount 0 stands for  *)
(* a missing count as well: if (subscriberCount) is false for both.        *)
(***************************************************************************)
\* A title score that never gives the exact-match 0.4
TitleScore_NoExact(seedLower, titleLower) ==
    IF includes(titleLower, seedLower) \/ includes(seedLower, titleLower)
    THEN Double(30)
    ELSE Double(0)

\* The title part: exact, else partial, else word overlap
TitleScore(seedLower, titleLower) ==
    IF titleLower = seedLower THEN Plus(Double(0), Double(40))
    ELSE IF includes(titleLower, seedLower) \/ includes(seedLower, titleLower)
    THEN Plus(Double(0), Double(30))
    ELSE LET seedWords == Words(seedLower)
             titleWords == Words(titleLower)
             overlap == Len(SelectSeq(seedWords,
                              LAMBDA w : \E i \in 1..Len(titleWords) :
                                            titleWords[i] = w))
         IN  IF overlap > 0
             THEN Plus(Double(0), Times(Double(10), Min(overlap, 3)))
             ELSE Double(0)

\* A penalty that counts the first rank as well
RankPenalty_FromFirst(rank) == Times(Double(5), rank)

\* 0.05 * (rank - 1)
RankPenalty(rank) == Times(Double(5), rank - 1)

calculateMatchScore(seedName, channelTitle, channelDescription, subscriberCount, rank) ==
    LET seedLower == toLowerCase(seedName)
        titleLower == toLowerCase(channelTitle)
        descLower == toLowerCase(channelDescription)
        Official(score) ==
            IF \E k \in 1..Len(OFFICIAL_KEYWORDS) :
                  includes(titleLower, OFFICIAL_KEYWORDS[k])
            THEN Plus(score, Double(10)) ELSE score
        Tamil(score) ==
            IF \E k \in 1..Len(TAMIL_KEYWORDS) :
                  \/ includes(titleLower, TAMIL_KEYWORDS[k])
                  \/ includes(descLower, TAMIL_KEYWORDS[k])
            THEN Plus(score, Double(10)) ELSE score
        Subscribers(score) ==
            IF subscriberCount >= 10000000 THEN Plus(score, Double(15))
            ELSE IF subscriberCount >= 1000000 THEN Plus(score, Double(10))
            ELSE IF subscriberCount >= 100000 THEN Plus(score, Double(5))
            ELSE score
        Rank(score) == IF rank > 1 THEN Minus(score, RankPenalty(rank)) ELSE score
    IN  MathMax(Double(0),
                MathMin(Double(100),
                        Rank(Subscribers(Tamil(Official(TitleScore(seedLower,
                                                                   titleLower)))))))

\* A choice that takes the first result whatever its score
BestResult_First(seedName, results, n) ==
    [score |-> calculateMatchScore(seedName, results[1].title,
                                   results[1].description, 0, 1),
     rank |-> 1, channelId |-> results[1].channelId]

\* if (score > bestScore) { bestScore = score; bestResult = result }
KeepBest(best, score, rank, channelId) ==
    IF Less(best.score, score)
    THEN [score |-> score, rank |-> rank, channelId |-> channelId]
    ELSE best

\* The loop over the results: the first result of the highest score above 0
RECURSIVE BestResult(_, _, _)
BestResult(seedName, results, n) ==
    IF n = 0 THEN [score |-> Double(0), rank |-> 0, channelId |-> ""]
    ELSE KeepBest(BestResult(seedName, results, n - 1),
                  calculateMatchScore(seedName, results[n].title,
                                      results[n].description, 0, n),
                  n, results[n].channelId)

(***************************************************************************)
(* Pipeline resolve-channels: resolveChannels and resolveSeed              *)
(***************************************************************************)
ResolveVars == <<spentEarlier, clock, videos, progress, faults, upstream, pace>>

\* resolveChannels up to the for loop: the overrides file is loaded, the seeds
\* are inserted, the pending rows are read once
ResolveChannelsStart ==
    /\ proc.kind = "idle"
    /\ gw.pc = "idle"
    /\ \E file \in OverridesFiles :
          channel_overrides' = loadOverridesFromJson(file)
    /\ seed_channels' = insertManySeedChannels(SEED_CHANNELS)
    /\ LET pending == getPendingSeedChannels(seed_channels', 1)
       IN  proc' = IF Len(pending) = 0 THEN ProcIdle
                   ELSE [kind |-> "resolve", pc |-> "seed", pending |-> pending,
                         idx |-> 1, seedName |-> pending[1],
                         bestRank |-> 0, bestChannelId |-> ""]
    /\ UNCHANGED <<api_calls, channels, gw>>
    /\ UNCHANGED ResolveVars

\* A loop that ends after the first seed
SeedDone_Stops(table) ==
    /\ seed_channels' = table
    /\ proc' = ProcIdle

\* The end of an iteration of the loop of resolveChannels, the seed's row
\* written: the quota check, then the next pending seed
SeedDone(table) ==
    /\ seed_channels' = table
    /\ proc' = IF ~checkQuota(100) \/ proc.idx >= Len(proc.pending)
               THEN ProcIdle
               ELSE [proc EXCEPT !.idx = @ + 1, !.pc = "seed",
                                 !.seedName = proc.pending[proc.idx + 1],
                                 !.bestRank = 0, !.bestChannelId = ""]

\* resolveSeed: the manual override first
ResolveSeedOverride ==
    /\ proc.kind = "resolve"
    /\ proc.pc = "seed"
    /\ IF getOverride(proc.seedName) # ""
       THEN /\ LET r == ChannelByIdRequest(getOverride(proc.seedName))
               IN  apiRequestBegin(r.endpoint, r.params, FALSE)
            /\ proc' = [proc EXCEPT !.pc = "override"]
       ELSE /\ proc' = [proc EXCEPT !.pc = "tryHandle"]
            /\ UNCHANGED <<api_calls, gw>>
    /\ UNCHANGED <<seed_channels, channels, channel_overrides>>
    /\ UNCHANGED ResolveVars

\* getChannelById(override.channel_id) settles. An error is caught by
\* resolveChannels, which marks the seed failed with the error's message.
ResolveOverrideReturn ==
    /\ proc.kind = "resolve"
    /\ proc.pc = "override"
    /\ gw.pc = "done"
    /\ gw' = GwIdle
    /\ IF ~gw.ok
       THEN /\ SeedDone(updateSeedChannelFailed(proc.seedName, gw.error))
            /\ UNCHANGED channels
       ELSE IF FirstChannel(gw.data) # <<>>
       THEN LET channel == FirstChannel(gw.data)[1]
            IN  /\ channels' = upsertChannel(channel)
                /\ SeedDone(updateSeedChannelResolved(proc.seedName, channel.channelId,
                                channel.title, "manual_override", Double(100), 1))
       ELSE /\ proc' = [proc EXCEPT !.pc = "tryHandle"]
            /\ UNCHANGED <<seed_channels, channels>>
    /\ UNCHANGED <<api_calls, channel_overrides>>
    /\ UNCHANGED ResolveVars

\* The handle lookup, for a name that looks like a handle
ResolveTryHandle ==
    /\ proc.kind = "resolve"
    /\ proc.pc = "tryHandle"
    /\ IF looksLikeHandle(StripSpaces(proc.seedName))
       THEN /\ LET r == ChannelByHandleRequest(StripSpaces(proc.seedName))
               IN  apiRequestBegin(r.endpoint, r.params, FALSE)
            /\ proc' = [proc EXCEPT !.pc = "handle"]
       ELSE /\ proc' = [proc EXCEPT !.pc = "search"]
            /\ UNCHANGED <<api_calls, gw>>
    /\ UNCHANGED <<seed_channels, channels, channel_overrides>>
    /\ UNCHANGED ResolveVars

\* A handle step whose error marks the seed failed
ResolveHandleReturn_ErrorFails ==
    /\ proc.kind = "resolve"
    /\ proc.pc = "handle"
    /\ gw.pc = "done"
    /\ gw' = GwIdle
    /\ IF ~gw.ok
       THEN SeedDone(updateSeedChannelFailed(proc.seedName, gw.error))
       ELSE /\ proc' = [proc EXCEPT !.pc = "search"]
            /\ UNCHANGED seed_channels
    /\ UNCHANGED <<api_calls, channels, channel_overrides>>
    /\ UNCHANGED ResolveVars

\* getChannelByHandle settles: a channel of score >= 0.3 resolves the seed, an
\* error, no channel or a lower score falls through to the search
ResolveHandleReturn ==
    /\ proc.kind = "resolve"
    /\ proc.pc = "handle"
    /\ gw.pc = "done"
    /\ gw' = GwIdle
    /\ LET found == IF gw.ok THEN FirstChannel(gw.data) ELSE <<>>
           score == IF found = <<>> THEN Double(0)
                    ELSE calculateMatchScore(proc.seedName, found[1].title,
                                             found[1].description,
                                             found[1].subscriberCount, 1)
       IN  IF found # <<>> /\ ~Less(score, Double(30))
           THEN /\ channels' = upsertChannel(found[1])
                /\ SeedDone(updateSeedChannelResolved(proc.seedName, found[1].channelId,
                                found[1].title, "handle", score, 1))
           ELSE /\ proc' = [proc EXCEPT !.pc = "search"]
                /\ UNCHANGED <<seed_channels, channels>>
    /\ UNCHANGED <<api_calls, channel_overrides>>
    /\ UNCHANGED ResolveVars

\* The handle's channel is accepted and a write of the store throws, in
\* upsertChannel (nothing is written) or in updateSeedChannelResolved (the
\* channel is written): the catch of the handle step swallows the error
ResolveHandleStoreFails ==
    /\ proc.kind = "resolve"
    /\ proc.pc = "handle"
    /\ gw.pc = "done"
    /\ gw.ok
    /\ FirstChannel(gw.data) # <<>>
    /\ ~Less(calculateMatchScore(proc.seedName, FirstChannel(gw.data)[1].title,
                                 FirstChannel(gw.data)[1].description,
                                 FirstChannel(gw.data)[1].subscriberCount, 1),
             Double(30))
    /\ gw' = GwIdle
    /\ \E written \in BOOLEAN :
          channels' = IF written THEN upsertChannel(FirstChannel(gw.data)[1])
                      ELSE channels
    /\ proc' = [proc EXCEPT !.pc = "search"]
    /\ UNCHANGED <<api_calls, seed_channels, channel_overrides>>
    /\ UNCHANGED ResolveVars

\* The fall back to the search: without 100 units left the seed is marked failed
ResolveSearch ==
    /\ proc.kind = "resolve"
    /\ proc.pc = "search"
    /\ IF ~checkQuota(100)
       THEN /\ SeedDone(updateSeedChannelFailed(proc.seedName, "Quota exhausted"))
            /\ UNCHANGED <<api_calls, gw>>
       ELSE /\ LET r == SearchRequest(proc.seedName)
               IN  apiRequestBegin(r.endpoint, r.params, FALSE)
            /\ proc' = [proc EXCEPT !.pc = "results"]
            /\ UNCHANGED seed_channels
    /\ UNCHANGED <<channels, channel_overrides>>
    /\ UNCHANGED ResolveVars

\* searchChannels settles: the results are scored and the best one is chosen
ResolveSearchReturn ==
    /\ proc.kind = "resolve"
    /\ proc.pc = "results"
    /\ gw.pc = "done"
    /\ gw' = GwIdle
    /\ IF ~gw.ok
       THEN SeedDone(updateSeedChannelFailed(proc.seedName, gw.error))
       ELSE LET results == SearchChannelsResult(gw.data)
                best == BestResult(proc.seedName, results, Len(results))
            IN  IF Len(results) = 0
                THEN SeedDone(updateSeedChannelFailed(proc.seedName, "No search results"))
                ELSE IF best.rank = 0 \/ Less(best.score, Double(20))
                THEN SeedDone(updateSeedChannelFailed(proc.seedName,
                                                      "Best match score too low"))
                ELSE /\ proc' = [proc EXCEPT !.pc = "details", !.bestRank = best.rank,
                                             !.bestChannelId = best.channelId]
                     /\ UNCHANGED seed_channels
    /\ UNCHANGED <<api_calls, channels, channel_overrides>>
    /\ UNCHANGED ResolveVars

\* getChannelById(bestResult.channelId) is called
ResolveFetchDetails ==
    /\ proc.kind = "resolve"
    /\ proc.pc = "details"
    /\ LET r == ChannelByIdRequest(proc.bestChannelId)
       IN  apiRequestBegin(r.endpoint, r.params, FALSE)
    /\ proc' = [proc EXCEPT !.pc = "channel"]
    /\ UNCHANGED <<seed_channels, channels, channel_overrides>>
    /\ UNCHANGED ResolveVars

\* The channel's details settle: the final score is computed, the channel and
\* the seed's row are written
ResolveDetailsReturn ==
    /\ proc.kind = "resolve"
    /\ proc.pc = "channel"
    /\ gw.pc = "done"
    /\ gw' = GwIdle
    /\ IF ~gw.ok
       THEN /\ SeedDone(updateSeedChannelFailed(proc.seedName, gw.error))
            /\ UNCHANGED channels
       ELSE IF FirstChannel(gw.data) = <<>>
       THEN /\ SeedDone(updateSeedChannelFailed(proc.seedName, "Could not fetch channel"))
            /\ UNCHANGED channels
       ELSE LET channel == FirstChannel(gw.data)[1]
                finalScore == calculateMatchScore(proc.seedName, channel.title,
                                                  channel.description,
                                                  channel.subscriberCount, proc.bestRank)
            IN  /\ channels' = upsertChannel(channel)
                /\ SeedDone(updateSeedChannelResolved(proc.seedName, channel.channelId,
                                channel.title, "search", finalScore, proc.bestRank))
    /\ UNCHANGED <<api_calls, channel_overrides>>
    /\ UNCHANGED ResolveVars

\* cli reset is invoked, with or without --confirm
ResetCommand ==
    /\ proc.kind = "idle"
    /\ gw.pc = "idle"
    /\ \E confirm \in BOOLEAN : proc' = [kind |-> "reset", confirm |-> confirm]
    /\ UNCHANGED <<api_calls, spentEarlier, clock, videos, progress, seed_channels,
                   channels, channel_overrides, gw, faults, upstream, pace>>

\* A reset that deletes the seed's row
ResetSeed_Delete(row) == NoSeed

\* UPDATE seed_channels SET ... = NULL, resolution_status = 'pending'
ResetSeed(row) == IF row.exists THEN PendingSeed ELSE row

\* The action of cli reset: without --confirm it returns at once; with it
\* every seed is back to pending and the other tables are emptied (the call
\* log with them, the rows behind spentEarlier included)
Reset ==
    /\ proc.kind = "reset"
    /\ proc' = ProcIdle
    /\ IF proc.confirm
       THEN /\ seed_channels' = [n \in SeedNames |-> ResetSeed(seed_channels[n])]
            /\ channels' = {}
            /\ videos' = {}
            /\ progress' = [pl \in Playlists |-> NoProgress]
            /\ api_calls' = <<>>
            /\ spentEarlier' = 0
       ELSE UNCHANGED <<seed_channels, channels, videos, progress, api_calls,
                        spentEarlier>>
    /\ UNCHANGED <<clock, channel_overrides, gw, faults, upstream, pace>>

(***************************************************************************)
(* A caller of the gateway: any typed operation, with or without skipCache *)
(***************************************************************************)
GatewayRequests == {SearchRequest("Sony Music South"), ChannelByIdRequest("UC1")}

ClientCall ==
    /\ proc.kind = "idle"
    /\ \E r \in GatewayRequests, skipCache \in BOOLEAN :
          apiRequestBegin(r.endpoint, r.params, skipCache)
    /\ proc' = [kind |-> "client"]
    /\ UNCHANGED <<spentEarlier, clock, videos, progress, seed_channels,
                   channels, channel_overrides, faults, upstream, pace>>

\* The promise settles: the caller has the typed result or the error
ClientReturn ==
    /\ proc.kind = "client"
    /\ gw.pc = "done"
    /\ gw' = GwIdle
    /\ proc' = ProcIdle
    /\ UNCHANGED <<api_calls, spentEarlier, clock, videos, progress, seed_channels,
                   channels, channel_overrides, faults, upstream, pace>>

Budget == DAILY_QUOTA_LIMIT - QUOTA_BUFFER

InitStore ==
    /\ api_calls = <<>>
    /\ spentEarlier \in {0, Budget - EarlierSlack}
    /\ clock = 0
    /\ gw = GwIdle
    /\ proc = ProcIdle
    /\ upstream = [calls |-> 0, cost |-> 0]
    /\ pace = PaceStart

InitGateway ==
    /\ InitStore
    /\ faults = MaxFaults
    /\ videos = {}
    /\ progress = [pl \in Playlists |-> NoProgress]
    /\ seed_channels = [n \in SeedNames |-> PendingSeed]
    /\ channels = {}
    /\ channel_overrides = [n \in SeedNames |-> ""]

\* Two resolved seeds with their uploads playlists; two seeds can name the
\* same channel
InitCrawl ==
    /\ InitStore
    /\ faults = 0
    /\ videos = {}
    /\ progress = [pl \in Playlists |-> NoProgress]
    /\ \E c \in {"UC1", "UC2"} :
          seed_channels = [n \in SeedNames |->
                             IF n = SEED_CHANNELS[1] THEN CrawlableSeed(c)
                             ELSE CrawlableSeed("UC2")]
    /\ channels = {}
    /\ channel_overrides = [n \in SeedNames |-> ""]

NextCrawl ==
    \/ CrawlUploadsStart \/ CrawlNextChannel \/ CrawlRequestPage \/ CrawlInsertPage
    \/ CrawlSaveProgress \/ CrawlSummary \/ MetadataFetched
    \/ Fetch \/ Respond \/ Tick \/ Crash

SpecCrawl == InitCrawl /\ [][NextCrawl]_vars

\* The crawl with an upstream that can fail an exchange
InitFailedPage ==
    /\ InitStore
    /\ faults = MaxFaults
    /\ videos = {}
    /\ progress = [pl \in Playlists |-> NoProgress]
    /\ \E c \in {"UC1", "UC2"} :
          seed_channels = [n \in SeedNames |->
                             IF n = SEED_CHANNELS[1] THEN CrawlableSeed(c)
                             ELSE CrawlableSeed("UC2")]
    /\ channels = {}
    /\ channel_overrides = [n \in SeedNames |-> ""]

SpecFailedPage == InitFailedPage /\ [][NextCrawl]_vars

\* The crawl re-invoked again and again while the days pass and the upstream
\* answers: no crash, no failed exchange
NextProgress ==
    \/ CrawlUploadsStart \/ CrawlNextChannel \/ CrawlRequestPage \/ CrawlInsertPage
    \/ CrawlSaveProgress \/ CrawlSummary \/ Fetch \/ Respond \/ Tick \/ NewDay

\* Each step of the sequential program is taken when it is due, the upstream
\* answers, the operator invokes the crawl again and midnight comes
FairProgress ==
    /\ WF_vars(CrawlUploadsStart) /\ WF_vars(CrawlNextChannel)
    /\ WF_vars(CrawlRequestPage) /\ WF_vars(CrawlInsertPage)
    /\ WF_vars(CrawlSaveProgress) /\ WF_vars(CrawlSummary)
    /\ WF_vars(Fetch) /\ WF_vars(Respond) /\ WF_vars(NewDay)

SpecProgress == InitCrawl /\ [][NextProgress]_vars /\ FairProgress

\* The videos of the listings, discovered and pending
DiscoveredRow(videoId) ==
    [youtube_id |-> videoId,
     channel_id |-> IF videoId = 21 THEN "UC2" ELSE "UC1",
     discovered_from |-> "uploads_playlist",
     seed_source |-> IF videoId = 21 THEN SEED_CHANNELS[2] ELSE SEED_CHANNELS[1],
     metadata_status |-> "pending", video_status |-> "active"]

\* After a crawl: the seeds resolved, some of the listings' videos discovered
InitMetadata ==
    /\ InitStore
    /\ faults = MaxFaults
    /\ \E found \in (SUBSET {11, 12, 21}) \ {{}} :
          videos = {DiscoveredRow(v) : v \in found}
    /\ progress = [pl \in Playlists |-> NoProgress]
    /\ seed_channels = [n \in SeedNames |->
                          IF n = SEED_CHANNELS[1] THEN CrawlableSeed("UC1")
                          ELSE CrawlableSeed("UC2")]
    /\ channels = {}
    /\ channel_overrides = [n \in SeedNames |-> ""]

NextMetadata ==
    \/ FetchVideoDetailsStart \/ MetadataRequestBatch \/ MetadataStoreBatch
    \/ Fetch \/ Respond \/ Tick \/ Crash

SpecMetadata == InitMetadata /\ [][NextMetadata]_vars

\* Callers of the gateway, together or one after the other, while time passes
NextPacing ==
    \/ \E c \in Callers : RateLimit(c)
    \/ \E c \in Callers : SleepDone(c)
    \/ \E c \in Callers : AttemptSettles(c)
    \/ \E c \in Callers : RetryAttempt(c)
    \/ TimePasses

SpecPacing == InitGateway /\ [][NextPacing]_vars

\* getVideosByIds is called with a list of distinct ids
IdLists == {[k \in 1..n |-> first + k] : n \in 0..MaxIds, first \in {0, 10}}

InitByIds ==
    /\ api_calls = <<>>
    /\ spentEarlier \in {0, Budget - EarlierSlack}
    /\ clock = 0
    /\ gw = GwIdle
    /\ upstream = [calls |-> 0, cost |-> 0]
    /\ pace = PaceStart
    /\ \E videoIds \in IdLists :
          proc = [kind |-> "byIds", pc |-> "batch", videoIds |-> videoIds, i |-> 0,
                  requests |-> 0, fetchedIds |-> {}, results |-> <<>>]
    /\ faults = MaxFaults
    /\ videos = {}
    /\ progress = [pl \in Playlists |-> NoProgress]
    /\ seed_channels = [n \in SeedNames |-> PendingSeed]
    /\ channels = {}
    /\ channel_overrides = [n \in SeedNames |-> ""]

NextByIds ==
    \/ GetVideosNextBatch \/ GetVideosBatchReturn \/ GetVideosDone
    \/ Fetch \/ Respond

SpecByIds == InitByIds /\ [][NextByIds]_vars

(***************************************************************************)
(* calculateMatchScore on its own: the arguments are drawn from names of   *)
(* SEED_CHANNELS, titles that reach every branch of the title part, and    *)
(* the subscriber counts around the three thresholds                       *)
(***************************************************************************)
ScoreSeeds ==
    {"A.R. Rahman Official", "Sony Music South", "Tamil Movie Songs Official",
     "Tips Tamil"}

ScoreTitles ==
    {"A.R. Rahman Official", "SONY MUSIC SOUTH", "Sony Music South - Topic", "Tips",
     "Official Songs Movie Tamil HD", "Think Music India", "Movie Songs Jukebox",
     "Raaga", ""}

ScoreDescriptions == {"", "Latest Kollywood hits", "பாடல்"}

SubscriberCounts ==
    {0, 99999, 100000, 999999, 1000000, 9999999, 10000000, 12000000}

InitScore ==
    /\ api_calls = <<>>
    /\ spentEarlier = 0
    /\ clock = 0
    /\ gw = GwIdle
    /\ upstream = [calls |-> 0, cost |-> 0]
    /\ pace = PaceStart
    /\ \E seedName \in ScoreSeeds, channelTitle \in ScoreTitles,
          channelDescription \in ScoreDescriptions,
          subscriberCount \in SubscriberCounts, rank \in 1..MaxRank :
          proc = [kind |-> "score", pc |-> "call", seedName |-> seedName,
                  channelTitle |-> channelTitle,
                  channelDescription |-> channelDescription,
                  subscriberCount |-> subscriberCount, rank |-> rank,
                  score |-> Double(0)]
    /\ faults = 0
    /\ videos = {}
    /\ progress = [pl \in Playlists |-> NoProgress]
    /\ seed_channels = [n \in SeedNames |-> PendingSeed]
    /\ channels = {}
    /\ channel_overrides = [n \in SeedNames |-> ""]

\* One call of calculateMatchScore returns
ScoreCall ==
    /\ proc.kind = "score"
    /\ proc.pc = "call"
    /\ proc' = [proc EXCEPT !.pc = "returned",
                            !.score = calculateMatchScore(proc.seedName,
                                          proc.channelTitle, proc.channelDescription,
                                          proc.subscriberCount, proc.rank)]
    /\ UNCHANGED <<api_calls, spentEarlier, clock, videos, progress, seed_channels,
                   channels, channel_overrides, gw, faults, upstream, pace>>

NextScore == ScoreCall

SpecScore == InitScore /\ [][NextScore]_vars

(***************************************************************************)
(* cli reset on a database that earlier runs have filled                   *)
(***************************************************************************)
\* A seed that a run failed
FailedSeed ==
    [PendingSeed EXCEPT !.resolution_status = "failed",
                        !.resolution_error = "No search results"]

\* The channels row of a resolved channel
ChannelRow(channelId) ==
    [channel_id |-> channelId, title |-> ChannelItem(channelId).title,
     uploads_playlist_id |-> UploadsOf(channelId),
     subscriber_count |-> ChannelItem(channelId).subscriberCount]

\* The progress row of a playlist whose first page has been crawled
CrawledProgress(playlistId) ==
    [NoProgress EXCEPT !.exists = TRUE, !.channel_id = ChannelOf(playlistId),
                       !.total_results = ListingTotal(playlistId),
                       !.fetched_count = 1, !.next_page_token = 1]

InitReset ==
    /\ LET r == SearchRequest(SEED_CHANNELS[1])
       IN  api_calls =
              <<[endpoint |-> r.endpoint,
                 params_hash |-> hashParams(r.endpoint, r.params),
                 request_params |-> JSONstringify(UpstreamData(r.endpoint, r.params)),
                 response_status |-> 200, quota_cost |-> quotaCost(r.endpoint),
                 cached |-> 0, called_at |-> 0]>>
    /\ spentEarlier \in {0, EarlierSlack}
    /\ clock = 0
    /\ gw = GwIdle
    /\ proc = ProcIdle
    /\ upstream = [calls |-> 1, cost |-> quotaCost("search")]
    /\ pace = PaceStart
    /\ faults = 0
    /\ seed_channels \in [SeedNames -> {NoSeed, PendingSeed, FailedSeed,
                                        CrawlableSeed("UC1")}]
    /\ channels \in SUBSET {ChannelRow("UC1"), ChannelRow("UC2")}
    /\ videos \in SUBSET {DiscoveredRow(11), DiscoveredRow(21)}
    /\ progress \in {[pl \in Playlists |-> NoProgress],
                      [pl \in Playlists |->
                          IF pl = "PL1" THEN CrawledProgress(pl) ELSE NoProgress]}
    /\ channel_overrides \in OverridesFiles

NextReset == ResetCommand \/ Reset

SpecReset == InitReset /\ [][NextReset]_vars

NextGateway == ClientCall \/ Fetch \/ Respond \/ ClientReturn \/ Tick \/ Crash

SpecGateway == InitGateway /\ [][NextGateway]_vars

\* An empty database, nothing spent today or the budget nearly used up
InitResolve ==
    /\ InitStore
    /\ faults = MaxFaults
    /\ videos = {}
    /\ progress = [pl \in Playlists |-> NoProgress]
    /\ seed_channels = [n \in SeedNames |-> NoSeed]
    /\ channels = {}
    /\ channel_overrides = [n \in SeedNames |-> ""]

NextResolve ==
    \/ ResolveChannelsStart \/ ResolveSeedOverride \/ ResolveOverrideReturn
    \/ ResolveTryHandle \/ ResolveHandleReturn \/ ResolveSearch
    \/ ResolveSearchReturn \/ ResolveFetchDetails \/ ResolveDetailsReturn
    \/ ResetCommand \/ Reset \/ Fetch \/ Respond \/ Tick \/ Crash

SpecResolve == InitResolve /\ [][NextResolve]_vars

\* The process dies inside resolveSeed between upsertChannel and
\* updateSeedChannelResolved, on the override, the handle or the search path:
\* the channel's row is written, the seed's row is not
CrashAfterUpsert ==
    /\ proc.kind = "resolve"
    /\ proc.pc \in {"override", "handle", "channel"}
    /\ gw.pc = "done"
    /\ gw.ok
    /\ FirstChannel(gw.data) # <<>>
    /\ proc.pc = "handle" =>
          ~Less(calculateMatchScore(proc.seedName, FirstChannel(gw.data)[1].title,
                                    FirstChannel(gw.data)[1].description,
                                    FirstChannel(gw.data)[1].subscriberCount, 1),
                Double(30))
    /\ channels' = upsertChannel(FirstChannel(gw.data)[1])
    /\ gw' = GwIdle
    /\ proc' = ProcIdle
    /\ UNCHANGED <<api_calls, seed_channels, channel_overrides>>
    /\ UNCHANGED ResolveVars

\* The process dies inside the statements of cli reset, which db.exec runs one
\* after the other: the seeds are reset, and of the four DELETEs only the
\* first `done` have run
CrashInReset ==
    /\ proc.kind = "reset"
    /\ proc.confirm
    /\ proc' = ProcIdle
    /\ seed_channels' = [n \in SeedNames |-> ResetSeed(seed_channels[n])]
    /\ \E done \in 0..3 :
          /\ channels' = IF done >= 1 THEN {} ELSE channels
          /\ videos' = IF done >= 2 THEN {} ELSE videos
          /\ progress' = IF done >= 3 THEN [pl \in Playlists |-> NoProgress]
                         ELSE progress
    /\ UNCHANGED <<api_calls, spentEarlier, clock, channel_overrides, gw, faults,
                   upstream, pace>>

\* The resolver and the reset on one database, the process dying at any point,
\* between two writes of a step included
NextReferential ==
    \/ ResolveChannelsStart \/ ResolveSeedOverride \/ ResolveOverrideReturn
    \/ ResolveTryHandle \/ ResolveHandleReturn \/ ResolveSearch
    \/ ResolveSearchReturn \/ ResolveFetchDetails \/ ResolveDetailsReturn
    \/ ResetCommand \/ Reset \/ Fetch \/ Respond \/ Crash
    \/ CrashAfterUpsert \/ CrashInReset

SpecReferential == InitResolve /\ [][NextReferential]_vars

\* An outage of the upstream: as many failed exchanges as one call can attempt
RetryFaults == DefaultRetries + 1

InitOutage ==
    /\ InitStore
    /\ faults = RetryFaults
    /\ videos = {}
    /\ progress = [pl \in Playlists |-> NoProgress]
    /\ seed_channels = [n \in SeedNames |-> NoSeed]
    /\ channels = {}
    /\ channel_overrides = [n \in SeedNames |-> ""]

SpecOutage == InitOutage /\ [][NextResolve]_vars

\* The two pipelines, each with an upstream that may fail an exchange: the
\* resolver on an empty database, the crawler on resolved seeds
InitIsolation == InitResolve \/ InitFailedPage

NextIsolation == NextResolve \/ NextCrawl

SpecIsolation == InitIsolation /\ [][NextIsolation]_vars

(***************************************************************************)
(* The three stages run to their end: the process is not killed, every     *)
(* step of the sequential program is taken when it is due and the upstream *)
(* answers every request, with a response or with a failure                *)
(***************************************************************************)
InitTermination == InitResolve \/ InitFailedPage \/ InitMetadata

NextTermination ==
    \/ ResolveChannelsStart \/ ResolveSeedOverride \/ ResolveOverrideReturn
    \/ ResolveTryHandle \/ ResolveHandleReturn \/ ResolveSearch
    \/ ResolveSearchReturn \/ ResolveFetchDetails \/ ResolveDetailsReturn
    \/ CrawlUploadsStart \/ CrawlNextChannel \/ CrawlRequestPage \/ CrawlInsertPage
    \/ CrawlSaveProgress \/ CrawlSummary
    \/ FetchVideoDetailsStart \/ MetadataRequestBatch \/ MetadataStoreBatch
    \/ Fetch \/ Respond

\* What the crawler, the metadata stage and a gateway call do next: the
\* process has one thread, so at most one of these steps is due at a time
Proceed ==
    \/ CrawlNextChannel \/ CrawlRequestPage \/ CrawlInsertPage
    \/ CrawlSaveProgress \/ CrawlSummary
    \/ MetadataRequestBatch \/ MetadataStoreBatch
    \/ Fetch \/ Respond

\* The commands are invoked as the operator likes; a stage that runs goes on
\* and the upstream answers
FairTermination == WF_vars(Proceed)

SpecTermination == InitTermination /\ [][NextTermination]_vars /\ FairTermination

\* The gateway's callers during an outage of the upstream
InitRetry ==
    /\ InitStore
    /\ faults = RetryFaults
    /\ videos = {}
    /\ progress = [pl \in Playlists |-> NoProgress]
    /\ seed_channels = [n \in SeedNames |-> PendingSeed]
    /\ channels = {}
    /\ channel_overrides = [n \in SeedNames |-> ""]

NextRetry == ClientCall \/ Fetch \/ Respond \/ ClientReturn \/ Crash

SpecRetry == InitRetry /\ [][NextRetry]_vars

(***************************************************************************)


(* The ranked-search step on its own: a seed's search has just returned,   *)
(* with any ranked list of channels as the upstream's answer               *)
(***************************************************************************)
CandidateLists ==
    {l \in UNION {[1..k -> ChannelIds] : k \in 0..MaxCandidates} :
        \A i, j \in DOMAIN l : i # j => l[i] # l[j]}

\* The body of the search response that lists these channels
SearchAnswer(l) ==
    [items |-> [i \in 1..Len(l) |->
                  [channelId |-> l[i], title |-> ChannelItem(l[i]).title,
                   description |-> ChannelItem(l[i]).description]]]

\* The body of a search response whose snippets were taken before the channels
\* in `renamed` got the titles they have now (the answer of a search index that
\* lags, or a response read from api_calls, where it was logged before)
StaleAnswer(l, renamed) ==
    [items |-> [i \in 1..Len(l) |->
                  [channelId |-> l[i],
                   title |-> IF l[i] \notin renamed THEN ChannelItem(l[i]).title
                             ELSE IF l[i] = "UC1" THEN "Sony Music India"
                             ELSE IF l[i] = "UC2" THEN "Think Music"
                             ELSE "Think Music India",
                   description |-> ChannelItem(l[i]).description]]]

InitSearch ==
    \E seedName \in SeedNames, l \in CandidateLists :
        LET r == SearchRequest(seedName)
        IN  /\ spentEarlier = 0
            /\ clock = 0
            /\ api_calls =
                  <<[endpoint |-> r.endpoint,
                     params_hash |-> hashParams(r.endpoint, r.params),
                     request_params |-> JSONstringify(SearchAnswer(l)),
                     response_status |-> 200, quota_cost |-> quotaCost(r.endpoint),
                     cached |-> 0, called_at |-> 0]>>
            /\ upstream = [calls |-> 1, cost |-> quotaCost(r.endpoint)]
            /\ pace = PaceStart
            /\ gw = GwDone([GwIdle EXCEPT !.endpoint = r.endpoint, !.params = r.params,
                                          !.attempt = 1, !.status = 200],
                           FALSE, TRUE, SearchAnswer(l), "")
            /\ proc = [kind |-> "resolve", pc |-> "results", pending |-> <<seedName>>,
                       idx |-> 1, seedName |-> seedName,
                       bestRank |-> 0, bestChannelId |-> ""]
            /\ faults = MaxFaults
            /\ videos = {}
            /\ progress = [pl \in Playlists |-> NoProgress]
            /\ seed_channels = [n \in SeedNames |-> PendingSeed]
            /\ channels = {}
            /\ channel_overrides = [n \in SeedNames |-> ""]

NextSearch ==
    \/ ResolveSearchReturn \/ ResolveFetchDetails \/ ResolveDetailsReturn
    \/ Fetch \/ Respond \/ Crash

SpecSearch == InitSearch /\ [][NextSearch]_vars

\* The same step with a search answer whose snippets may be older than the
\* channel details the upstream serves
InitStaleSearch ==
    \E seedName \in SeedNames, l \in CandidateLists, renamed \in SUBSET ChannelIds :
        LET r == SearchRequest(seedName)
        IN  /\ spentEarlier = 0
            /\ clock = 0
            /\ api_calls =
                  <<[endpoint |-> r.endpoint,
                     params_hash |-> hashParams(r.endpoint, r.params),
                     request_params |-> JSONstringify(StaleAnswer(l, renamed)),
                     response_status |-> 200, quota_cost |-> quotaCost(r.endpoint),
                     cached |-> 0, called_at |-> 0]>>
            /\ upstream = [calls |-> 1, cost |-> quotaCost(r.endpoint)]
            /\ pace = PaceStart
            /\ gw = GwDone([GwIdle EXCEPT !.endpoint = r.endpoint, !.params = r.params,
                                          !.attempt = 1, !.status = 200],
                           FALSE, TRUE, StaleAnswer(l, renamed), "")
            /\ proc = [kind |-> "resolve", pc |-> "results", pending |-> <<seedName>>,
                       idx |-> 1, seedName |-> seedName,
                       bestRank |-> 0, bestChannelId |-> ""]
            /\ faults = MaxFaults
            /\ videos = {}
            /\ progress = [pl \in Playlists |-> NoProgress]
            /\ seed_channels = [n \in SeedNames |-> PendingSeed]
            /\ channels = {}
            /\ channel_overrides = [n \in SeedNames |-> ""]

SpecStaleSearch == InitStaleSearch /\ [][NextSearch]_vars

(***************************************************************************)
(* The handle step on its own: resolveSeed has found no override for a     *)
(* seed, whose name is any of these                                        *)
(***************************************************************************)
HandleSeeds ==
    {"Sony Music South", "Think Music India", "Think India Records", "Think Tunes",
     "@tipstamil", "T-Series Tamil", "A.R. Rahman Official", "Saregama Tamil!", "இசை"}

InitHandle ==
    \E seedName \in HandleSeeds :
        /\ api_calls = <<>>
        /\ spentEarlier \in {0, Budget - EarlierSlack, Budget}
        /\ clock = 0
        /\ gw = GwIdle
        /\ upstream = [calls |-> 0, cost |-> 0]
        /\ pace = PaceStart
        /\ faults \in {MaxFaults, RetryFaults}
        /\ videos = {}
        /\ progress = [pl \in Playlists |-> NoProgress]
        /\ seed_channels = [n \in HandleSeeds |-> PendingSeed]
        /\ channels = {}
        /\ channel_overrides = [n \in HandleSeeds |-> ""]
        /\ proc = [kind |-> "resolve", pc |-> "tryHandle", pending |-> <<seedName>>,
                   idx |-> 1, seedName |-> seedName,
                   bestRank |-> 0, bestChannelId |-> ""]

NextHandle ==
    \/ ResolveTryHandle \/ ResolveHandleReturn \/ ResolveSearch
    \/ ResolveSearchReturn \/ ResolveFetchDetails \/ ResolveDetailsReturn
    \/ Fetch \/ Respond \/ Tick \/ Crash

SpecHandle == InitHandle /\ [][NextHandle]_vars

\* The handle step with a store that may refuse a write
NextHandleErrors == NextHandle \/ ResolveHandleStoreFails

SpecHandleErrors == InitHandle /\ [][NextHandleErrors]_vars

(***************************************************************************)
(* Properties of the gateway                                               *)
(***************************************************************************)
\* A gateway call begins in this step
CallBegins == gw.pc = "idle" /\ gw'.pc # "idle"

\* Rows of api_calls that a lookup of `hash` can find
HasCachedRow(hash) ==
    \E i \in 1..Len(api_calls) :
        api_calls[i].params_hash = hash /\ api_calls[i].response_status = 200

\* A 200 response of the upstream for `hash` has been logged
HasSuccessRow(hash) ==
    \E i \in 1..Len(api_calls) :
        /\ api_calls[i].params_hash = hash
        /\ api_calls[i].response_status = 200
        /\ api_calls[i].cached = 0

\* C2: in every reachable state today's summed non-cached cost is at most
\* the daily limit minus the buffer (9900): the buffer is never spent.
C2_BufferNeverSpent == getQuotaUsedToday <= DAILY_QUOTA_LIMIT - QUOTA_BUFFER

C4_CacheCorrectness ==
    [][(/\ CallBegins
        /\ ~gw'.skipCache
        /\ HasSuccessRow(hashParams(gw'.endpoint, gw'.params)))
       => (/\ gw'.pc = "done"
           /\ gw'.hit
           /\ gw'.ok
           /\ upstream' = upstream
           /\ Len(api_calls') = Len(api_calls) + 1
           /\ SubSeq(api_calls', 1, Len(api_calls)) = api_calls
           /\ api_calls'[Len(api_calls')].params_hash = hashParams(gw'.endpoint, gw'.params)
           /\ api_calls'[Len(api_calls')].quota_cost = 0
           /\ api_calls'[Len(api_calls')].cached = 1
           /\ getQuotaUsedToday' = getQuotaUsedToday)]_vars

\* The second and the third request of a signature, both served from the log
C4_TwoHits ==
    /\ gw.pc = "done"
    /\ gw.hit
    /\ Len(api_calls) = 3
    /\ api_calls[1].cached = 0 /\ api_calls[1].response_status = 200
    /\ api_calls[2].cached = 1 /\ api_calls[3].cached = 1
    /\ api_calls[2].params_hash = api_calls[1].params_hash
    /\ api_calls[3].params_hash = api_calls[1].params_hash
    /\ upstream.calls = 1

\* C5: every cache hit returns the body of the 200 response of its signature
C5_CacheReplay ==
    (gw.pc = "done" /\ gw.hit) => gw.data = UpstreamData(gw.endpoint, gw.params)

\* C6: every non-cached row carries the documented cost of its operation
\* (100 for a search, 1 for the others)
C6_FixedCosts ==
    \A i \in 1..Len(api_calls) :
        api_calls[i].cached = 0 =>
            api_calls[i].quota_cost = DocumentedCost(api_calls[i].endpoint)

\* C7: whenever no gateway call is in flight (also after a crash and restart),
\* today's derived spend is the cost of the exchanges had with the upstream
C7_LedgerCrashSafe ==
    gw.pc = "idle" => getQuotaUsedToday = spentEarlier + upstream.cost

(***************************************************************************)
(* Properties of the crawler                                               *)
(***************************************************************************)
\* The videoIds the listing of a playlist holds
ValidItems(pl) ==
    UNION {{Listing[pl][k][i] : i \in 1..Len(Listing[pl][k])} :
              k \in 1..Len(Listing[pl])} \ {0}

VideosOf(channelId) == {r \in videos : r.channel_id = channelId}

IsComplete(pl) == progress[pl].exists /\ progress[pl].is_complete = 1

\* C1: whatever crashes and restarts came before, a playlist marked complete
\* has exactly the items of its listing in the videos table, each once.
C1_ResumableCrawl ==
    \A pl \in Playlists :
        IsComplete(pl) =>
            /\ {r.youtube_id : r \in VideosOf(ChannelOf(pl))} = ValidItems(pl)
            /\ Cardinality(VideosOf(ChannelOf(pl))) = Cardinality(ValidItems(pl))

\* C8: the videos table never holds two rows of one youtube_id; the insert of
\* a page leaves every existing row as it was; a row in state fetched is never
\* pending again.
C8_IdempotentIngestion ==
    /\ [](\A r1, r2 \in videos : r1.youtube_id = r2.youtube_id => r1 = r2)
    /\ [][(proc.kind = "crawl" /\ proc.pc = "await") => videos \subseteq videos']_vars
    /\ [][\A r \in videos :
             r.metadata_status = "fetched" =>
                \E r2 \in videos' :
                    r2.youtube_id = r.youtube_id /\ r2.metadata_status # "pending"]_vars

\* A page was inserted again after the metadata of one of its videos was fetched
C8_ReinsertedFetched ==
    /\ proc.kind = "crawl"
    /\ proc.pc = "progress"
    /\ \E i \in 1..Len(proc.items) :
          \E r \in videos :
              r.youtube_id = proc.items[i].videoId /\ r.metadata_status = "fetched"

\* C9: a complete progress row has no continuation token, and no page is
\* requested for a root whose progress row is complete.
C9_CompletionInvariant ==
    /\ [](\A pl \in Playlists : IsComplete(pl) => progress[pl].next_page_token = 0)
    /\ [][(CallBegins /\ gw'.endpoint = "playlistItems")
            => ~IsComplete(gw'.params.playlistId)]_vars

(***************************************************************************)
(* Properties of the resolver                                              *)
(***************************************************************************)
Terminal(row) == row.resolution_status \in {"resolved", "failed"}

C11_QuotaSkip ==
    [][(/\ proc.kind = "resolve"
        /\ proc.pc = "search"
        /\ Budget - getQuotaUsedToday < DocumentedCost("search"))
       => (/\ ~CallBegins
           /\ upstream' = upstream
           /\ seed_channels'[proc.seedName].resolution_status = "pending")]_vars

\* C12: a run started with an override for a seed that an earlier run failed
\* or resolved to another channel has that seed in its list, and a run that
\* ends leaves every such seed resolved to the channel of its override.
C12_OverrideOnRerun ==
    [][ResolveChannelsStart =>
          \A n \in SeedNames :
              (/\ Terminal(seed_channels[n])
               /\ channel_overrides'[n] \in ChannelIds
               /\ seed_channels[n].resolved_channel_id # channel_overrides'[n])
              => (/\ proc'.kind = "resolve"
                  /\ \E i \in 1..Len(proc'.pending) : proc'.pending[i] = n)]_vars

\* C13: the first step of a pending seed that has an override is the get-by-id
\* call of the override's channel; when that call returns the channel, the seed
\* is resolved to it with method manual_override, confidence 1.0 and rank 1 and
\* its handling ends there: no handle lookup and no search follow.
C13_OverridePrecedence ==
    /\ [][(/\ proc.kind = "resolve"
           /\ proc.pc = "seed"
           /\ channel_overrides[proc.seedName] # ""
           /\ proc' # proc
           /\ proc'.kind = "resolve")
          => (/\ CallBegins
              /\ gw'.endpoint = "channels"
              /\ HasKey(gw'.params, "id")
              /\ gw'.params.id = channel_overrides[proc.seedName])]_vars
    /\ [][(/\ proc.kind = "resolve"
           /\ proc.pc = "override"
           /\ gw.pc = "done"
           /\ gw.ok
           /\ FirstChannel(gw.data) # <<>>
           /\ gw'.pc = "idle"
           /\ ~Crash)
          => (/\ seed_channels'[proc.seedName] =
                    [seed_channels[proc.seedName] EXCEPT
                        !.resolution_status = "resolved",
                        !.resolved_channel_id = channel_overrides[proc.seedName],
                        !.resolved_title = ChannelItem(channel_overrides[proc.seedName]).title,
                        !.resolution_method = "manual_override",
                        !.confidence_score = Double(100),
                        !.chosen_rank = 1]
              /\ \/ proc'.kind = "idle"
                 \/ proc'.pc = "seed" /\ proc'.idx = proc.idx + 1)]_vars

\* A seed resolved by its override
C13_ResolvedByOverride ==
    \E n \in SeedNames :
        /\ seed_channels[n].resolution_status = "resolved"
        /\ seed_channels[n].resolution_method = "manual_override"
        /\ seed_channels[n].resolved_channel_id = channel_overrides[n]

\* The score the search loop gives the i-th result
LoopScore(seedName, results, i) ==
    calculateMatchScore(seedName, results[i].title, results[i].description, 0, i)

\* C14: when the search returns, the highest-scoring candidate (the first of
\* them) is chosen; a best score of 0.2 or more is accepted and the details of
\* that candidate are fetched next, a best score below 0.2 (or no result) fails
\* the seed, writes no channel row and begins no call.
C14_ResolutionThreshold ==
    [][(/\ proc.kind = "resolve"
        /\ proc.pc = "results"
        /\ gw.pc = "done"
        /\ gw.ok
        /\ gw'.pc = "idle"
        /\ ~Crash)
       => LET results == SearchChannelsResult(gw.data)
              top == IF results = <<>> THEN Double(0)
                     ELSE CHOOSE x \in {LoopScore(proc.seedName, results, i) :
                                            i \in 1..Len(results)} :
                             \A i \in 1..Len(results) :
                                 ~Less(x, LoopScore(proc.seedName, results, i))
          IN  IF ~Less(top, Double(20))
              THEN /\ proc'.kind = "resolve"
                   /\ proc'.pc = "details"
                   /\ LoopScore(proc.seedName, results, proc'.bestRank) = top
                   /\ \A i \in 1..(proc'.bestRank - 1) :
                         Less(LoopScore(proc.seedName, results, i), top)
                   /\ proc'.bestChannelId = results[proc'.bestRank].channelId
                   /\ seed_channels' = seed_channels
                   /\ channels' = channels
              ELSE /\ seed_channels'[proc.seedName].resolution_status = "failed"
                   /\ channels' = channels
                   /\ api_calls' = api_calls
                   /\ upstream' = upstream
                   /\ proc'.kind = "idle"]_vars

\* A candidate whose score is exactly 0.2 was the best one and was accepted
C14_AcceptedAtThreshold ==
    /\ proc.kind = "resolve"
    /\ proc.pc = "details"
    /\ calculateMatchScore(proc.seedName, ChannelItem(proc.bestChannelId).title,
                           ChannelItem(proc.bestChannelId).description,
                           0, proc.bestRank) = Double(20)

\* The errors of a call that gave up after its last retry
ExhaustedErrors == {"Server error", "Rate limited"}

\* C15: a seed that a run failed because its upstream call kept failing with
\* a 5xx or a rate-limit status until the retries were exhausted is worked on
\* again by the next run, with no reset in between.
C15_TransientNotPermanent ==
    [][ResolveChannelsStart
       => \A n \in SeedNames :
             (/\ seed_channels[n].resolution_status = "failed"
              /\ seed_channels[n].resolution_error \in ExhaustedErrors)
             => /\ proc'.kind = "resolve"
                /\ \E i \in 1..Len(proc'.pending) : proc'.pending[i] = n]_vars

\* The uploads playlists of the resolved seeds
CrawlablePlaylists ==
    {seed_channels[n].uploads_playlist_id :
        n \in {m \in SeedNames : seed_channels[m].resolution_status = "resolved"}}

\* C16: crawlPlaylist requests the page named by the continuation token that
\* the progress row of its root holds (the first page when there is none), and
\* with the crawl invoked again and again while the budget comes back at
\* midnight, every crawlable playlist is eventually complete for good.
C16_ForwardProgress ==
    /\ [][(CallBegins /\ proc.kind = "crawl")
            => gw'.params = PlaylistItemsRequest(
                                proc.playlistId,
                                progress[proc.playlistId].next_page_token).params]_vars
    /\ <>[](\A pl \in CrawlablePlaylists : IsComplete(pl))

\* A new run after midnight (it has inserted nothing yet) asks for the page
\* the halted run had stopped before
C16_ResumedAfterHalt ==
    /\ Date(clock) > 0
    /\ proc.kind = "crawl"
    /\ proc.newVideosTotal = 0
    /\ proc.fetchedCount > 0
    /\ gw.pc = "fetch"
    /\ progress[proc.playlistId].exists
    /\ progress[proc.playlistId].next_page_token # 0
    /\ HasKey(gw.params, "pageToken")
    /\ gw.params.pageToken = progress[proc.playlistId].next_page_token
    /\ getQuotaUsedToday = 0

\* C17: when the quota check at the top of crawlPlaylist's loop fails, no
\* call begins and the upstream is not reached, the progress table and the
\* videos stay as written, the run goes to its summary as after a pause, and
\* the counts of the pages this crawl of the root has fetched are in the
\* totals the run reports.
C17_HaltUnderExhaustedBudget ==
    [][(/\ proc.kind = "crawl"
        /\ proc.pc = "page"
        /\ ~checkQuota(1)
        /\ proc' # proc
        /\ ~Crash)
       => /\ ~CallBegins
          /\ upstream' = upstream
          /\ api_calls' = api_calls
          /\ progress' = progress
          /\ videos' = videos
          /\ proc'.kind = "crawl"
          /\ proc'.pc = "summary"
          /\ proc'.totalVideos = proc.totalVideos + proc.fetchedCount
          /\ proc'.totalNewVideos = proc.totalNewVideos + proc.newVideosTotal]_vars

(***************************************************************************)
(* Properties of the metadata stage                                        *)
(***************************************************************************)
\* C18: the metadata_status of every video is pending, fetched or failed; a
\* video that has left pending keeps the status it got, whatever step follows.
C18_MetadataLifecycle ==
    /\ [](\A r \in videos : r.metadata_status \in {"pending", "fetched", "failed"})
    /\ [][\A r \in videos :
             r.metadata_status # "pending" =>
                \E r2 \in videos' :
                    /\ r2.youtube_id = r.youtube_id
                    /\ r2.metadata_status = r.metadata_status]_vars

(***************************************************************************)
(* Properties of the pacing gate                                           *)
(***************************************************************************)
\* An outbound request of caller c leaves in this step
RequestLeaves(c) == pace.call[c].pc # "fetch" /\ pace'.call[c].pc = "fetch"

\* C19: a request, first attempt or retry, of any caller leaves at least
\* MIN_REQUEST_INTERVAL_MS after the request that left before it.
C19_GlobalPacing ==
    [][\A c \in Callers :
          (RequestLeaves(c) /\ pace.lastStart >= 0)
             => pace'.now - pace.lastStart >= MIN_REQUEST_INTERVAL_MS]_vars

(***************************************************************************)
(* Properties of the retries                                               *)
(***************************************************************************)
\* The attempt that has just failed is followed by another one
Retried ==
    gw'.pc = "fetch" /\ gw'.attempt = gw.attempt + 1 /\ gw.attempt <= DefaultRetries

\* The call fails with the error of the attempt that has just failed
FailsWithThisError ==
    gw'.pc = "done" /\ ~gw'.ok /\ gw'.error = ErrorMessage(gw.status)

C21_AuditCompleteness ==
    [][(gw.pc = "respond" /\ gw' # gw /\ ~Crash)
         => /\ Len(api_calls') = Len(api_calls) + 1
            /\ SubSeq(api_calls', 1, Len(api_calls)) = api_calls
            /\ api_calls'[Len(api_calls')].cached = 0
            /\ api_calls'[Len(api_calls')].params_hash = hashParams(gw.endpoint, gw.params)
            /\ api_calls'[Len(api_calls')].quota_cost = quotaCost(gw.endpoint)]_vars

(***************************************************************************)
(* Properties of getVideosByIds                                            *)
(***************************************************************************)
\* C22: every request of getVideosByIds names at most 50 ids, those of the
\* next slice of the list; when it returns it has made ceil(n/50) requests and
\* its results hold exactly one entry for each id of the list, an entry with
\* status deleted for every id the upstream does not have.
C22_BatchedGetById ==
    /\ [][(CallBegins /\ proc.kind = "byIds")
            => /\ Cardinality(gw'.params.id) <= IdsPerRequest
               /\ gw'.params.id = IdsOf(Slice(proc.videoIds, proc.i))]_vars
    /\ []((proc.kind = "byIds" /\ proc.pc = "returned")
            => /\ proc.requests = (Len(proc.videoIds) + (IdsPerRequest - 1)) \div IdsPerRequest
               /\ Len(proc.results) = Len(proc.videoIds)
               /\ \A v \in IdsOf(proc.videoIds) :
                     /\ Cardinality({k \in 1..Len(proc.results) :
                                        proc.results[k].videoId = v}) = 1
                     /\ v \notin VideoCatalogue
                          => \E k \in 1..Len(proc.results) :
                                proc.results[k] = [videoId |-> v, status |-> "deleted"])

\* A list of more than two batches, not a multiple of 50, has been answered:
\* some ids by the upstream's items and the others by placeholders
C22_ThreeBatchesReturned ==
    /\ proc.kind = "byIds"
    /\ proc.pc = "returned"
    /\ Len(proc.videoIds) > 2 * IdsPerRequest
    /\ proc.requests = 3
    /\ \E k \in 1..Len(proc.results) : proc.results[k].status # "deleted"
    /\ \E k \in 1..Len(proc.results) : proc.results[k].status = "deleted"

(***************************************************************************)
(* Properties of fetchVideoDetails                                         *)
(***************************************************************************)
\* C23: a run of fetchVideoDetails with a maximum of n videos has never
\* processed (stored the details of, or marked failed) more than n videos.
C23_IterationCap ==
    (proc.kind = "metadata") => (proc.processed <= proc.limit)

\* The common words of two texts: the words longer than 2 that are in both
CommonTokens(a, b) ==
    {Words(a)[i] : i \in 1..Len(Words(a))} \cap {Words(b)[i] : i \in 1..Len(Words(b))}

HasKeyword(text, keywords) ==
    \E k \in 1..Len(keywords) : includes(toLowerCase(text), keywords[k])

\* The reference score: the sum of the parts in the order they are named,
\* in double arithmetic
ReferenceScore(seed, title, description, popularity, rank) ==
    LET s == toLowerCase(seed)
        t == toLowerCase(title)
        tier == IF t = s THEN Double(40)
                ELSE IF includes(t, s) \/ includes(s, t) THEN Double(30)
                ELSE Times(Double(10), Min(Cardinality(CommonTokens(s, t)), 3))
        officialdom == IF HasKeyword(title, OFFICIAL_KEYWORDS) THEN Double(10)
                       ELSE Double(0)
        domain == IF \/ HasKeyword(title, TAMIL_KEYWORDS)
                     \/ HasKeyword(description, TAMIL_KEYWORDS)
                  THEN Double(10) ELSE Double(0)
        bonus == IF popularity >= 10000000 THEN Double(15)
                 ELSE IF popularity >= 1000000 THEN Double(10)
                 ELSE IF popularity >= 100000 THEN Double(5)
                 ELSE Double(0)
        sum == Minus(Plus(Plus(Plus(tier, officialdom), domain), bonus),
                     Times(Double(5), rank - 1))
    IN  IF Less(sum, Double(0)) THEN Double(0)
        ELSE IF Less(Double(100), sum) THEN Double(100)
        ELSE sum

ScoreAtFirstRank ==
    calculateMatchScore(proc.seedName, proc.channelTitle, proc.channelDescription,
                        proc.subscriberCount, 1)

\* C25: for every candidate the score at rank r is the score at rank 1 less
\* 0.05 x (r - 1), and not below the floor 0; at rank 3 it is the score at
\* rank 1 less 0.10, or the floor. (The numbers are the doubles of the code
\* and the difference is the double subtraction.)
C25_RankPenalty ==
    (proc.kind = "score" /\ proc.pc = "returned")
    => /\ proc.score = MathMax(Double(0),
                               Minus(ScoreAtFirstRank, Times(Double(5), proc.rank - 1)))
       /\ proc.rank = 3
          => proc.score = MathMax(Double(0), Minus(ScoreAtFirstRank, Double(10)))

\* A candidate scored at rank 3 whose score is above the floor
C25_ThirdRankScored ==
    /\ proc.kind = "score"
    /\ proc.pc = "returned"
    /\ proc.rank = 3
    /\ Less(Double(0), proc.score)
    /\ proc.score = Minus(ScoreAtFirstRank, Double(10))

\* C26: inserting the seed names again (at the start of every run) leaves one
\* row for each name: a name that had no row gets a pending row with no
\* resolution field set, and the row of a name that had one is left exactly
\* as it was, its status and its resolution fields included.
C26_IdempotentSeeding ==
    [][ResolveChannelsStart =>
          \A n \in SeedNames :
              /\ seed_channels'[n].exists
              /\ seed_channels[n].exists => seed_channels'[n] = seed_channels[n]
              /\ ~seed_channels[n].exists => seed_channels'[n] = PendingSeed]_vars

\* A run has just started, and inserted the names again, while the row of a
\* seed was resolved and the row of another one was failed or pending
C26_InsertedOverResolved ==
    /\ proc.kind = "resolve"
    /\ proc.pc = "seed"
    /\ proc.idx = 1
    /\ \E n \in SeedNames : seed_channels[n].resolution_status = "resolved"
    /\ \E n \in SeedNames : seed_channels[n].resolution_status = "pending"

\* C27: when the search for a pending seed without override returns no result
\* (the handle lookup, if there was one, found nothing before), the seed is
\* marked failed with the error "No search results", its other fields and the
\* other seeds are left alone, no channel row is created or changed, and the
\* seed's handling ends without another call.
C27_NoResults ==
    [][(/\ proc.kind = "resolve"
        /\ proc.pc = "results"
        /\ channel_overrides[proc.seedName] = ""
        /\ seed_channels[proc.seedName].resolution_status = "pending"
        /\ gw.pc = "done"
        /\ gw.ok
        /\ SearchChannelsResult(gw.data) = <<>>
        /\ gw'.pc = "idle"
        /\ ~Crash)
       => (/\ seed_channels' =
                 [seed_channels EXCEPT ![proc.seedName] =
                     [@ EXCEPT !.resolution_status = "failed",
                               !.resolution_error = "No search results"]]
           /\ channels' = channels
           /\ api_calls' = api_calls
           /\ upstream' = upstream
           /\ proc'.kind = "idle")]_vars

\* A seed failed for want of search results, and no channel row was written
C27_FailedWithoutResults ==
    /\ proc.kind = "idle"
    /\ channels = {}
    /\ \E n \in SeedNames :
          /\ seed_channels[n].resolution_status = "failed"
          /\ seed_channels[n].resolution_error = "No search results"
          /\ seed_channels[n].resolved_channel_id = ""

PersistedPage(pl) ==
    PlaylistItemsResponse(
        PlaylistPage(pl, IF progress[pl].exists THEN progress[pl].next_page_token ELSE 0))

\* C29: the write that follows a fetched page stores, in the row of the root,
\* that page's continuation token, the fetched count increased by the number
\* of the page's items and is_complete = 1 exactly if the page has no token,
\* and it comes before the request of the next page: whenever crawlPlaylist
\* is about to request a page, or waits for one, the row holds the token and
\* the count it works with. A crawl of a root whose row holds a token asks
\* for the page of that token.
C29_PerPageProgress ==
    /\ [][(/\ proc.kind = "crawl"
           /\ proc.pc = "progress"
           /\ proc'.kind = "crawl"
           /\ proc'.pc # "progress")
          => LET pl == proc.playlistId
                 page == PersistedPage(pl)
             IN  /\ progress'[pl].exists
                 /\ progress'[pl].next_page_token = page.nextPageToken
                 /\ progress'[pl].fetched_count =
                        (IF progress[pl].exists THEN progress[pl].fetched_count ELSE 0)
                        + Len(page.items)
                 /\ progress'[pl].is_complete = (IF page.nextPageToken = 0 THEN 1 ELSE 0)
                 /\ ~CallBegins]_vars
    /\ [](proc.kind = "crawl" /\ proc.pc \in {"page", "await"}
            => LET row == progress[proc.playlistId]
               IN  /\ proc.nextPageToken = (IF row.exists THEN row.next_page_token ELSE 0)
                   /\ proc.fetchedCount = (IF row.exists THEN row.fetched_count ELSE 0)
                   /\ proc.items # <<>> => row.exists)
    /\ [][(/\ CallBegins
           /\ proc.kind = "crawl"
           /\ progress[proc.playlistId].exists
           /\ progress[proc.playlistId].next_page_token # 0)
          => (/\ HasKey(gw'.params, "pageToken")
              /\ gw'.params.pageToken = progress[proc.playlistId].next_page_token)]_vars

\* C30: when the fetch of a page fails with an upstream error, crawlPlaylist
\* is left by the error (the loop of crawlUploads goes on with the next
\* channel), no video is inserted and the progress table is as it was: a
\* progress row is written only after a page has been fetched and inserted.
C30_FailedPagePersistsNothing ==
    /\ [][(/\ proc.kind = "crawl"
           /\ proc.pc = "await"
           /\ gw.pc = "done"
           /\ ~gw.ok
           /\ gw'.pc = "idle"
           /\ ~Crash)
          => (/\ videos' = videos
              /\ progress' = progress
              /\ proc'.kind = "crawl"
              /\ proc'.pc = "channel"
              /\ proc'.idx = proc.idx + 1
              /\ proc'.totalProcessed = proc.totalProcessed)]_vars
    /\ [][progress' # progress
            => (proc.kind = "crawl" /\ proc.pc = "progress")]_vars

\* The second page of a root failed: the run has left the root, whose row is
\* the one written after the first page
C30_SecondPageFailed ==
    /\ proc.kind = "crawl"
    /\ proc.pc = "channel"
    /\ proc.idx = 2
    /\ proc.totalProcessed = 0
    /\ proc.items # <<>>
    /\ faults = 0
    /\ progress[proc.playlistId].exists
    /\ progress[proc.playlistId].next_page_token # 0
    /\ progress[proc.playlistId].fetched_count = Len(proc.items)

(***************************************************************************)
(* Properties of the gateway: failures, the order of cache and ledger      *)
(***************************************************************************)
\* The only rows of `hash` are failed responses
OnlyFailedRows(hash) ==
    /\ \E i \in 1..Len(api_calls) : api_calls[i].params_hash = hash
    /\ ~HasCachedRow(hash)

\* C31: a failed exchange gives no signature a cache entry, and a call that
\* ends on it hands its error to the caller; a later request of a signature
\* that has only failed rows is not served from the log: it passes the quota
\* check as an uncached request and goes to the upstream.
C31_FailuresNotCached ==
    /\ [][(gw.pc = "respond" /\ gw.status # 200)
          => (/\ \A i \in 1..Len(api_calls') :
                    api_calls'[i].response_status = 200 =>
                        (i <= Len(api_calls) /\ api_calls'[i] = api_calls[i])
              /\ gw'.pc = "done" =>
                    (~gw'.ok /\ ~gw'.hit /\ gw'.error = ErrorMessage(gw.status)))]_vars
    /\ [][(CallBegins /\ OnlyFailedRows(hashParams(gw'.endpoint, gw'.params)))
          => (/\ ~gw'.hit
              /\ api_calls' = api_calls
              /\ IF checkQuota(quotaCost(gw'.endpoint))
                 THEN gw'.pc = "fetch" /\ gw'.attempt = 1
                 ELSE gw'.pc = "done" /\ ~gw'.ok)]_vars

\* A request has failed for good and the same request is at the upstream again
C31_AskedAgainAfterFailure ==
    /\ gw.pc = "respond"
    /\ gw.attempt = 1
    /\ ~gw.skipCache
    /\ upstream.calls = 2
    /\ Len(api_calls) = 1
    /\ api_calls[1].params_hash = hashParams(gw.endpoint, gw.params)
    /\ api_calls[1].response_status = 404

\* C32: a request without skipCache whose signature has a 200 row is
\* answered from the log, with one row of cost 0 and cached = 1 and no
\* exchange with the upstream, also when the budget left is smaller than the
\* operation's cost; the quota error is raised only for a request the log
\* cannot answer.
C32_CacheBeforeLedger ==
    /\ [][(/\ CallBegins
           /\ ~gw'.skipCache
           /\ HasCachedRow(hashParams(gw'.endpoint, gw'.params))
           /\ ~checkQuota(quotaCost(gw'.endpoint)))
          => (/\ gw'.pc = "done"
              /\ gw'.hit
              /\ gw'.ok
              /\ upstream' = upstream
              /\ Len(api_calls') = Len(api_calls) + 1
              /\ api_calls'[Len(api_calls')].quota_cost = 0
              /\ api_calls'[Len(api_calls')].cached = 1
              /\ getQuotaUsedToday' = getQuotaUsedToday)]_vars
    /\ [][(CallBegins /\ gw'.error = "Daily quota limit reached")
          => (gw'.skipCache
              \/ ~HasCachedRow(hashParams(gw'.endpoint, gw'.params)))]_vars

\* A cache hit with less budget left than the operation costs
C32_HitWithoutBudget ==
    /\ gw.pc = "done"
    /\ gw.hit
    /\ ~checkQuota(quotaCost(gw.endpoint))
    /\ api_calls[Len(api_calls)].cached = 1

\* The 4xx statuses other than 403 and 429
FatalStatus(status) == status >= 400 /\ status < 500 /\ status \notin {403, 429}

\* C33: an attempt answered with a 4xx status other than 403 and 429 is the
\* last attempt of its call: the response is logged and the call fails at once
\* with the API error, no further attempt being made (unless the process is
\* killed first); a call whose first attempt is answered so has made exactly
\* one attempt.
C33_FatalNotRetried ==
    /\ [][(gw.pc = "respond" /\ FatalStatus(gw.status) /\ gw'.pc # "idle")
          => (/\ gw'.pc = "done"
              /\ ~gw'.ok
              /\ gw'.error = "API error"
              /\ gw'.status = gw.status
              /\ gw'.attempt = gw.attempt
              /\ upstream' = upstream
              /\ Len(api_calls') = Len(api_calls) + 1
              /\ api_calls'[Len(api_calls')].response_status = gw.status)]_vars
    /\ [][(gw.pc = "done" /\ gw.error = "API error")
          => (gw'.pc = "idle" \/ UNCHANGED gw)]_vars

\* A call has failed on its first attempt, answered with a 404
C33_FailedOnFirstAttempt ==
    /\ gw.pc = "done"
    /\ gw.error = "API error"
    /\ gw.status = 404
    /\ gw.attempt = 1
    /\ upstream.calls = 1

(***************************************************************************)
(* Properties of the handle step                                           *)
(***************************************************************************)
\* The name without its blanks is made of letters, digits, '_' and '-' only,
\* or starts with '@'
IdentifierSafe(name) ==
    LET stripped == StripSpaces(name)
        safe == "abcdefghijklmnopqrstuvwxyzABCDEFGHIJKLMNOPQRSTUVWXYZ0123456789_-"
    IN  \/ SubSeq(stripped, 1, 1) = "@"
        \/ /\ stripped # ""
           /\ \A i \in 1..Len(stripped) :
                 \E k \in 1..Len(safe) : SubSeq(stripped, i, i) = SubSeq(safe, k, k)

\* The step is one of the resolver, not the death of the process
ResolverStep ==
    /\ proc' # proc
    /\ ~(gw' = GwIdle /\ proc' = ProcIdle /\ seed_channels' = seed_channels)

\* C34: after the override step, a handle lookup is requested exactly when
\* the seed's name without blanks is identifier-safe or starts with '@',
\* otherwise the search is next; the lookup's result resolves the seed (method
\* handle, rank 1, the computed score stored) exactly when a channel was found
\* and its score is at least 0.3, and in every other case the seed's row is
\* left as it is and the search is next.
C34_HandleStep ==
    /\ [][(proc.kind = "resolve" /\ proc.pc = "tryHandle" /\ ResolverStep)
          => IF IdentifierSafe(proc.seedName)
             THEN /\ proc'.pc = "handle"
                  /\ gw'.pc # "idle"
                  /\ gw'.endpoint = "channels"
                  /\ HasKey(gw'.params, "forHandle")
             ELSE /\ proc'.pc = "search"
                  /\ gw' = gw]_vars
    /\ [][(proc.kind = "resolve" /\ proc.pc = "handle" /\ gw.pc = "done" /\ ResolverStep)
          => LET found == gw.ok /\ Len(gw.data.items) > 0
                 score == calculateMatchScore(proc.seedName, gw.data.items[1].title,
                                              gw.data.items[1].description,
                                              gw.data.items[1].subscriberCount, 1)
             IN  IF found /\ ~Less(score, Double(30))
                 THEN /\ seed_channels'[proc.seedName].resolution_status = "resolved"
                      /\ seed_channels'[proc.seedName].resolution_method = "handle"
                      /\ seed_channels'[proc.seedName].chosen_rank = 1
                      /\ seed_channels'[proc.seedName].confidence_score = score
                      /\ seed_channels'[proc.seedName].resolved_channel_id
                            = gw.data.items[1].id
                      /\ proc' = ProcIdle \/ proc'.pc = "seed"
                 ELSE /\ seed_channels' = seed_channels
                      /\ channels' = channels
                      /\ proc' = [proc EXCEPT !.pc = "search"]]_vars

\* A seed resolved by its handle with a score just at the threshold
C34_AcceptedByHandle ==
    /\ seed_channels["Think India Records"].resolution_status = "resolved"
    /\ seed_channels["Think India Records"].resolution_method = "handle"
    /\ seed_channels["Think India Records"].confidence_score.h = 30
    /\ seed_channels["Think India Records"].chosen_rank = 1

(***************************************************************************)
(* Properties of the crawler: the total of a root                          *)
(***************************************************************************)
\* C35: a progress row that holds a total other than 0 keeps that total in
\* every later step of the crawler, whatever totals the later pages report.
C35_TotalImmutable ==
    [][\A pl \in Playlists :
          (progress[pl].exists /\ progress[pl].total_results # 0)
          => (/\ progress'[pl].exists
              /\ progress'[pl].total_results = progress[pl].total_results)]_vars

\* The second page of a root, which reported a larger total, has been saved
C35_SecondPageSaved ==
    /\ progress["PL1"].exists
    /\ progress["PL1"].is_complete = 1
    /\ progress["PL1"].fetched_count = 3
    /\ progress["PL1"].total_results = PageTotal("PL1", 1)
    /\ PageTotal("PL1", 2) # PageTotal("PL1", 1)
    /\ \E i \in 1..Len(api_calls) :
          /\ api_calls[i].endpoint = "playlistItems"
          /\ api_calls[i].cached = 0
          /\ api_calls[i].response_status = 200
          /\ JSONparse(api_calls[i].request_params).pageInfo.totalResults
                = PageTotal("PL1", 2)

(***************************************************************************)
(* Properties of the pipelines: errors of one unit                         *)
(***************************************************************************)
\* The process is killed in this step
Killed == gw' = GwIdle /\ proc' = ProcIdle /\ UNCHANGED <<seed_channels, progress>>

\* The pipeline takes a step
PipelineStep == proc' # proc /\ ~Killed

\* An error of the gateway reaches the catch of resolveChannels
SeedThrows ==
    /\ proc.kind = "resolve"
    /\ proc.pc \in {"override", "results", "channel"}
    /\ gw.pc = "done"
    /\ ~gw.ok

Capped == Len(api_calls) >= MaxRows \/ upstream.calls >= MaxRows

\* Where resolveSeed is in its sequence of steps, counted down
StepsLeft(pc) ==
    CASE pc = "seed" -> 8 [] pc = "override" -> 7 [] pc = "tryHandle" -> 6
      [] pc = "handle" -> 5 [] pc = "search" -> 4 [] pc = "results" -> 3
      [] pc = "details" -> 2 [] OTHER -> 1

\* The seeds and steps the resolver still has before it
ResolverMeasure(p) == (Len(p.pending) - p.idx) * 9 + StepsLeft(p.pc)

C38_ReferentialInvariant ==
    \A n \in SeedNames :
       (seed_channels[n].exists /\ seed_channels[n].resolution_status = "resolved")
       => /\ seed_channels[n].resolved_channel_id # ""
          /\ \E r \in channels : r.channel_id = seed_channels[n].resolved_channel_id

\* A seed is resolved, and a channel row that no seed points to is left from a
\* run that died between the two writes
C38_ResolvedBesideOrphan ==
    /\ \E n \in SeedNames : seed_channels[n].resolution_status = "resolved"
    /\ \E r \in channels :
          \A n \in SeedNames : seed_channels[n].resolved_channel_id # r.channel_id

\* C39: every seed stored as resolved with method search has a stored
\* confidence score of at least 0.2.
C39_StoredSearchConfidence ==
    \A n \in SeedNames :
       (/\ seed_channels[n].exists
        /\ seed_channels[n].resolution_status = "resolved"
        /\ seed_channels[n].resolution_method = "search")
       => ~Less(seed_channels[n].confidence_score, Double(20))

(***************************************************************************)
(* Properties of the resolver: the errors of the handle step               *)
(***************************************************************************)
\* The handle lookup has settled with an error, or with a channel that a
\* step then fails to store
HandleStepFails ==
    /\ proc.kind = "resolve"
    /\ proc.pc = "handle"
    /\ gw.pc = "done"
    /\ proc' # proc
    /\ ~Killed
    /\ ~gw.ok \/ seed_channels'[proc.seedName].resolution_status # "resolved"

\* C40: whatever error the handle step raises (a transient failure after the
\* retries, a fatal error, the gateway's quota refusal, a write of the store
\* that fails), the step leaves every seed row as it is, marks no seed failed
\* and goes on to the fall back for the same seed; the fall back checks the
\* quota for 100 units and, when they are left, begins the search for the
\* seed's name.
C40_HandleErrorsFallThrough ==
    /\ [][HandleStepFails
          => /\ seed_channels' = seed_channels
             /\ seed_channels'[proc.seedName].resolution_status = "pending"
             /\ api_calls' = api_calls
             /\ proc' = [proc EXCEPT !.pc = "search"]
             /\ gw' = GwIdle]_vars
    /\ [][(proc.kind = "resolve" /\ proc.pc = "search" /\ proc' # proc /\ ~Killed)
          => IF checkQuota(100)
             THEN /\ proc' = [proc EXCEPT !.pc = "results"]
                  /\ gw'.endpoint = "search"
                  /\ gw'.params.q = proc.seedName
                  /\ seed_channels' = seed_channels
             ELSE /\ seed_channels'[proc.seedName].resolution_status = "failed"
                  /\ seed_channels'[proc.seedName].resolution_error = "Quota exhausted"]_vars

\* The handle lookup has used its four attempts, two of them answered with a
\* 500 and two cut off, and the search for the same seed, still pending, has
\* begun
C40_SearchAfterFailedLookup ==
    /\ proc.kind = "resolve"
    /\ proc.pc = "results"
    /\ gw.endpoint = "search"
    /\ gw.pc = "fetch"
    /\ seed_channels[proc.seedName].resolution_status = "pending"
    /\ faults = 0
    /\ Len(api_calls) = 2
    /\ \A i \in 1..2 :
          api_calls[i].endpoint = "channels" /\ api_calls[i].response_status = 500
====
